---- MODULE Spec2Model ----
(***************************************************************************)
(* Model of js/jeopardy.js: the line-oriented board text format (its       *)
(* validators, parsers and serializers) and the session that stores board  *)
(* text, title, used cells, teams and the form draft in localStorage.      *)
(*                                                                         *)
(* Representation.  A JavaScript string is a sequence of one-character     *)
(* strings.  A text (file content, board text) is the sequence of lines    *)
(* that text.split(/\r?\n/) yields; it is never the empty sequence, since  *)
(* ''.split(...) is [''].  The serializers build their output from single- *)
(* line <input type="text"> values, so emitting "...\n" appends a line.    *)
(***************************************************************************)
EXTENDS Integers, Sequences, FiniteSets, TLC

VARIABLES
    probe,          \* a pure function under study: its input and its result
    localStorage,   \* the five slots the session keeps in window.localStorage
    page            \* the loaded page: its script variables and what it shows

vars == <<probe, localStorage, page>>

sessionVars == <<localStorage, page>>

-----------------------------------------------------------------------------
(* String primitives of JavaScript used by the program.                    *)

EmptyStr == <<>>

UpperLetters ==
    <<"A","B","C","D","E","F","G","H","I","J","K","L","M",
      "N","O","P","Q","R","S","T","U","V","W","X","Y","Z">>

LowerLetters ==
    <<"a","b","c","d","e","f","g","h","i","j","k","l","m",
      "n","o","p","q","r","s","t","u","v","w","x","y","z">>

Digits == {"0","1","2","3","4","5","6","7","8","9"}

UpperSet == {UpperLetters[i] : i \in 1..Len(UpperLetters)}

LowerOfUpper ==
    [c \in UpperSet |->
        LowerLetters[CHOOSE i \in 1..Len(UpperLetters) : UpperLetters[i] = c]]

\* String.prototype.toLowerCase on one character.
LowerChar(c) == IF c \in UpperSet THEN LowerOfUpper[c] ELSE c

ToLowerCase(s) == [i \in 1..Len(s) |-> LowerChar(s[i])]

\* White space removed by String.prototype.trim.
IsWhite(c) == c \in {" ", "\t", "\r"}

Trim(s) ==
    LET keep == {i \in 1..Len(s) : ~IsWhite(s[i])}
    IN  IF keep = {} THEN EmptyStr
        ELSE LET lo == CHOOSE i \in keep : \A j \in keep : i <= j
                 hi == CHOOSE i \in keep : \A j \in keep : j <= i
             IN  SubSeq(s, lo, hi)

StartsWith(s, p) == Len(s) >= Len(p) /\ SubSeq(s, 1, Len(p)) = p

\* s.substring(n): the characters from 0-based index n on.
Substring(s, n) == SubSeq(s, n + 1, Len(s))

\* s.includes(p)
Includes(s, p) ==
    \E i \in 1..(Len(s) - Len(p) + 1) : SubSeq(s, i, i + Len(p) - 1) = p

RECURSIVE Split(_, _)
\* s.split(c) for a one-character separator c.
Split(s, c) ==
    LET at == {i \in 1..Len(s) : s[i] = c}
    IN  IF at = {} THEN <<s>>
        ELSE LET i == CHOOSE k \in at : \A j \in at : k <= j
             IN  <<SubSeq(s, 1, i - 1)>> \o Split(SubSeq(s, i + 1, Len(s)), c)

RECURSIVE Join(_, _)
\* parts.join(sep)
Join(parts, sep) ==
    IF Len(parts) = 0 THEN EmptyStr
    ELSE IF Len(parts) = 1 THEN parts[1]
    ELSE parts[1] \o sep \o Join(Tail(parts), sep)

\* parts.slice(n): the elements from 0-based index n on.
Slice(parts, n) == SubSeq(parts, n + 1, Len(parts))

\* /^\d+\|/.test(s)
TestDigitsPipe(s) ==
    \E k \in 1..(Len(s) - 1) :
        /\ \A i \in 1..k : s[i] \in Digits
        /\ s[k + 1] = "|"

-----------------------------------------------------------------------------
(* Literals of the text format.                                            *)

DraftMarker == <<"[","J","E","O","P","A","R","D","Y"," ","D","R","A","F","T","]">>

TitlePrefix == <<"t","i","t","l","e",":">>

TeamsPrefix == <<"t","e","a","m","s",":">>

CreatedPrefix == <<"c","r","e","a","t","e","d",":">>

CategoryPrefix == <<"c","a","t","e","g","o","r","y",":">>

Bar == <<"|">>

\* Rows and categories of a complete board (5x5).
BoardSize == 5

-----------------------------------------------------------------------------
(* validateDraftFile and validateGameFile.                                 *)

MsgDraftFile ==
    "This appears to be a draft file. Please use the \"Edit\" button instead."

MsgNoTitle ==
    "This does not appear to be a valid game file. Game files should start with \"Title: [name]\"."

MsgTooFewCategories ==
    "This game file is incomplete. It should have 5 categories with 5 questions each. Please use the \"Edit\" button instead."

MsgIncompleteCategory ==
    "This game file has incomplete categories (missing questions/answers). Please use the \"Edit\" button instead."

CountStart ==
    [categoryCount |-> 0, hasIncompleteCategory |-> FALSE,
     currentCategoryQuestions |-> 0]

\* validateDraftFile rejecting what is neither marked nor titled.
validateDraftFileRejecting(lines) ==
    IF lines[1] # EmptyStr /\ Trim(lines[1]) = DraftMarker
    THEN [isValid |-> TRUE, type |-> "draft"]
    ELSE IF lines[1] # EmptyStr /\ StartsWith(ToLowerCase(Trim(lines[1])), TitlePrefix)
    THEN [isValid |-> TRUE, type |-> "draft"]
    ELSE [isValid |-> FALSE, message |-> MsgNoTitle]

\* One iteration of validateDraftFile's counting loop on the trimmed line.
DraftCountStep(st, line) ==
    IF StartsWith(ToLowerCase(line), CategoryPrefix)
    THEN [categoryCount |-> st.categoryCount + 1,
          hasIncompleteCategory |->
              \/ st.hasIncompleteCategory
              \/ (st.categoryCount > 0 /\ st.currentCategoryQuestions < BoardSize),
          currentCategoryQuestions |-> 0]
    ELSE IF TestDigitsPipe(line)
    THEN LET parts == Split(line, "|")
         IN  IF Len(parts) >= 3 /\ Trim(parts[2]) # EmptyStr /\ Trim(parts[3]) # EmptyStr
             THEN [st EXCEPT !.currentCategoryQuestions = @ + 1]
             ELSE st
    ELSE st

RECURSIVE DraftCountLoop(_, _, _)
\* for (let line of lines) { line = line.trim(); ... }, then the check of
\* the last category.  The test on next makes TLC compute the state of one
\* iteration before the following one starts.
DraftCountLoop(lines, i, st) ==
    IF i > Len(lines)
    THEN [st EXCEPT !.hasIncompleteCategory =
                        @ \/ st.currentCategoryQuestions < BoardSize]
    ELSE LET next == DraftCountStep(st, Trim(lines[i]))
         IN  IF next.categoryCount \in Nat
             THEN DraftCountLoop(lines, i + 1, next)
             ELSE next

\* validateDraftFile reporting a complete game as 'complete'.
validateDraftFileComplete(lines) ==
    IF lines[1] # EmptyStr /\ Trim(lines[1]) = DraftMarker
    THEN [isValid |-> TRUE, type |-> "draft"]
    ELSE IF lines[1] # EmptyStr /\ StartsWith(ToLowerCase(Trim(lines[1])), TitlePrefix)
    THEN LET c == DraftCountLoop(lines, 1, CountStart)
         IN  IF c.categoryCount < BoardSize \/ c.hasIncompleteCategory
             THEN [isValid |-> TRUE, type |-> "draft"]
             ELSE [isValid |-> TRUE, type |-> "complete"]
    ELSE [isValid |-> TRUE, type |-> "draft"]

validateDraftFile(lines) ==
    IF lines[1] # EmptyStr /\ Trim(lines[1]) = DraftMarker
    THEN [isValid |-> TRUE, type |-> "draft"]
    ELSE IF lines[1] # EmptyStr /\ StartsWith(ToLowerCase(Trim(lines[1])), TitlePrefix)
    THEN LET c == DraftCountLoop(lines, 1, CountStart)
         IN  IF c.categoryCount < BoardSize \/ c.hasIncompleteCategory
             THEN [isValid |-> TRUE, type |-> "draft"]
             ELSE [isValid |-> TRUE, type |-> "draft"]
    ELSE [isValid |-> TRUE, type |-> "draft"]

\* The counting step without the check made when the next category opens.
GameCountStepLastOnly(st, line) ==
    IF StartsWith(ToLowerCase(line), CategoryPrefix)
    THEN [st EXCEPT !.categoryCount = @ + 1, !.currentCategoryQuestions = 0]
    ELSE IF TestDigitsPipe(line)
    THEN LET parts == Split(line, "|")
         IN  IF Len(parts) >= 3 /\ Trim(parts[2]) # EmptyStr /\ Trim(parts[3]) # EmptyStr
             THEN [st EXCEPT !.currentCategoryQuestions = @ + 1]
             ELSE st
    ELSE st

\* One iteration of validateGameFile's counting loop on the trimmed line.
GameCountStep(st, line) ==
    IF StartsWith(ToLowerCase(line), CategoryPrefix)
    THEN [categoryCount |-> st.categoryCount + 1,
          hasIncompleteCategory |->
              \/ st.hasIncompleteCategory
              \/ (st.categoryCount > 0 /\ st.currentCategoryQuestions < BoardSize),
          currentCategoryQuestions |-> 0]
    ELSE IF TestDigitsPipe(line)
    THEN LET parts == Split(line, "|")
         IN  IF Len(parts) >= 3 /\ Trim(parts[2]) # EmptyStr /\ Trim(parts[3]) # EmptyStr
             THEN [st EXCEPT !.currentCategoryQuestions = @ + 1]
             ELSE st
    ELSE st

RECURSIVE GameCountLoopNoLastCheck(_, _, _)
\* The counting loop without the check of the last category.
GameCountLoopNoLastCheck(lines, i, st) ==
    IF i > Len(lines) THEN st
    ELSE LET next == GameCountStep(st, Trim(lines[i]))
         IN  IF next.categoryCount \in Nat
             THEN GameCountLoopNoLastCheck(lines, i + 1, next)
             ELSE next

RECURSIVE GameCountLoop(_, _, _)
GameCountLoop(lines, i, st) ==
    IF i > Len(lines)
    THEN [st EXCEPT !.hasIncompleteCategory =
                        @ \/ st.currentCategoryQuestions < BoardSize]
    ELSE LET next == GameCountStep(st, Trim(lines[i]))
         IN  IF next.categoryCount \in Nat
             THEN GameCountLoop(lines, i + 1, next)
             ELSE next

\* The marker test on the first line only, as validateDraftFile makes it.
GameHasMarkerFirstLineOnly(lines) ==
    lines[1] # EmptyStr /\ Trim(lines[1]) = DraftMarker

\* The draft-marker test of validateGameFile: lines.some(...).
GameHasMarker(lines) == \E i \in 1..Len(lines) : Trim(lines[i]) = DraftMarker

\* The two completeness checks in the other order.
GameCompletenessSwapped(c) ==
    IF c.hasIncompleteCategory
    THEN [isValid |-> FALSE, message |-> MsgIncompleteCategory]
    ELSE IF c.categoryCount < BoardSize
    THEN [isValid |-> FALSE, message |-> MsgTooFewCategories]
    ELSE [isValid |-> TRUE, type |-> "complete"]

\* The verdict of validateGameFile once marker and title passed.
GameCompleteness(c) ==
    IF c.categoryCount < BoardSize
    THEN [isValid |-> FALSE, message |-> MsgTooFewCategories]
    ELSE IF c.hasIncompleteCategory
    THEN [isValid |-> FALSE, message |-> MsgIncompleteCategory]
    ELSE [isValid |-> TRUE, type |-> "complete"]

validateGameFile(lines) ==
    IF GameHasMarker(lines)
    THEN [isValid |-> FALSE, message |-> MsgDraftFile]
    ELSE IF lines[1] = EmptyStr \/ ~StartsWith(ToLowerCase(Trim(lines[1])), TitlePrefix)
    THEN [isValid |-> FALSE, message |-> MsgNoTitle]
    ELSE GameCompleteness(GameCountLoop(lines, 1, CountStart))

-----------------------------------------------------------------------------
(* The three parsers of the text format.  In all of them the variable      *)
(* currentCategory starts as null and is only tested for truthiness, where *)
(* null and '' behave alike: null is modelled as the empty string.         *)

\* value|question|answer of a row that passed /^\d+\|/, as the draft import
\* parser builds it.
DraftClueOfParts(parts) ==
    [value |-> Trim(parts[1]),
     question |-> Trim(parts[2]),
     answer |-> Trim(Join(Slice(parts, 2), Bar))]

\* The same, in the game-file import parser.
GameClueOfParts(parts) ==
    [value |-> Trim(parts[1]),
     question |-> Trim(parts[2]),
     answer |-> Trim(Join(Slice(parts, 2), Bar))]

\* The answer taken from the third field alone.
BoardClueThirdFieldOnly(parts) ==
    [value |-> Trim(parts[1]),
     question |-> Trim(parts[2]),
     answer |-> Trim(parts[3])]

\* The same, in populateJeopardyBoardFromText.
BoardClueOfParts(parts) ==
    [value |-> Trim(parts[1]),
     question |-> Trim(parts[2]),
     answer |-> Trim(Join(Slice(parts, 2), Bar))]

ParseStart ==
    [title |-> EmptyStr, teams |-> <<>>, categories |-> <<>>,
     currentCategory |-> EmptyStr, currentClues |-> <<>>]

\* The same without name.trim().
TeamsOfNamesUntrimmed(teamNames) ==
    LET names == Split(teamNames, ",")
    IN  [i \in 1..Len(names) |-> [name |-> names[i], score |-> 0]]

\* teamNames.split(',').map(name => ({name: name.trim(), score: 0}))
TeamsOfNames(teamNames) ==
    LET names == Split(teamNames, ",")
    IN  [i \in 1..Len(names) |-> [name |-> Trim(names[i]), score |-> 0]]

\* Loop body of the draft import parser (Edit upload of a marked file).
DraftImportStep(st, raw) ==
    LET line == Trim(raw)
        low == ToLowerCase(line)
    IN  IF line = EmptyStr \/ line = DraftMarker THEN st
        ELSE IF StartsWith(low, TitlePrefix)
        THEN [st EXCEPT !.title = Trim(Substring(line, 6))]
        ELSE IF StartsWith(low, TeamsPrefix)
        THEN LET teamNames == Trim(Substring(line, 6))
             IN  IF teamNames # EmptyStr
                 THEN [st EXCEPT !.teams = TeamsOfNames(teamNames)]
                 ELSE st
        ELSE IF StartsWith(low, CreatedPrefix) THEN st
        ELSE IF StartsWith(low, CategoryPrefix)
        THEN [st EXCEPT
                !.categories =
                    IF st.currentCategory # EmptyStr
                    THEN Append(@, [name |-> st.currentCategory,
                                    clues |-> st.currentClues])
                    ELSE @,
                !.currentCategory = Trim(Substring(line, 9)),
                !.currentClues = <<>>]
        ELSE IF TestDigitsPipe(line)
        THEN LET parts == Split(line, "|")
             IN  IF Len(parts) >= 3
                 THEN [st EXCEPT !.currentClues = Append(@, DraftClueOfParts(parts))]
                 ELSE st
        ELSE st

RECURSIVE DraftImportLoop(_, _, _)
DraftImportLoop(lines, i, st) ==
    IF i > Len(lines) THEN st
    ELSE LET next == DraftImportStep(st, lines[i])
         IN  IF Len(next.categories) \in Nat
             THEN DraftImportLoop(lines, i + 1, next)
             ELSE next

\* The parse of the draft import: title, teams and the category tree.
ParseDraftImport(lines) ==
    LET st == DraftImportLoop(lines, 1, ParseStart)
    IN  [title |-> st.title,
         teams |-> st.teams,
         categories |->
             IF st.currentCategory # EmptyStr
             THEN Append(st.categories, [name |-> st.currentCategory,
                                         clues |-> st.currentClues])
             ELSE st.categories]

\* Loop body of the game-file import parser (Edit upload of an unmarked file).
GameImportStep(st, raw) ==
    LET line == Trim(raw)
        low == ToLowerCase(line)
    IN  IF line = EmptyStr THEN st
        ELSE IF StartsWith(low, TitlePrefix)
        THEN [st EXCEPT !.title = Trim(Substring(line, 6))]
        ELSE IF StartsWith(low, CategoryPrefix)
        THEN [st EXCEPT
                !.categories =
                    IF st.currentCategory # EmptyStr
                    THEN Append(@, [name |-> st.currentCategory,
                                    clues |-> st.currentClues])
                    ELSE @,
                !.currentCategory = Trim(Substring(line, 9)),
                !.currentClues = <<>>]
        ELSE IF TestDigitsPipe(line)
        THEN LET parts == Split(line, "|")
             IN  IF Len(parts) >= 3
                 THEN [st EXCEPT !.currentClues = Append(@, GameClueOfParts(parts))]
                 ELSE st
        ELSE st

RECURSIVE GameImportLoop(_, _, _)
GameImportLoop(lines, i, st) ==
    IF i > Len(lines) THEN st
    ELSE LET next == GameImportStep(st, lines[i])
         IN  IF Len(next.categories) \in Nat
             THEN GameImportLoop(lines, i + 1, next)
             ELSE next

ParseGameImport(lines) ==
    LET st == GameImportLoop(lines, 1, ParseStart)
    IN  [title |-> st.title,
         teams |-> st.teams,
         categories |->
             IF st.currentCategory # EmptyStr
             THEN Append(st.categories, [name |-> st.currentCategory,
                                         clues |-> st.currentClues])
             ELSE st.categories]

BoardParseStart ==
    [categories |-> <<>>, questions |-> <<>>,
     currentCategory |-> EmptyStr, currentQuestions |-> <<>>]

\* Loop body of populateJeopardyBoardFromText.
BoardParseStep(st, raw) ==
    LET line == Trim(raw)
    IN  IF line = EmptyStr THEN st
        ELSE IF StartsWith(ToLowerCase(line), CategoryPrefix)
        THEN [st EXCEPT
                !.categories =
                    IF st.currentCategory # EmptyStr
                    THEN Append(@, st.currentCategory) ELSE @,
                !.questions =
                    IF st.currentCategory # EmptyStr
                    THEN Append(@, st.currentQuestions) ELSE @,
                !.currentCategory = Trim(Substring(line, 9)),
                !.currentQuestions = <<>>]
        ELSE IF TestDigitsPipe(line)
        THEN LET parts == Split(line, "|")
             IN  IF Len(parts) >= 3
                 THEN [st EXCEPT !.currentQuestions = Append(@, BoardClueOfParts(parts))]
                 ELSE st
        ELSE st

RECURSIVE BoardParseLoop(_, _, _)
BoardParseLoop(lines, i, st) ==
    IF i > Len(lines) THEN st
    ELSE LET next == BoardParseStep(st, lines[i])
         IN  IF Len(next.categories) \in Nat
             THEN BoardParseLoop(lines, i + 1, next)
             ELSE next

\* The categories and questions arrays populateJeopardyBoardFromText builds.
ParseBoardText(lines) ==
    LET st == BoardParseLoop(lines, 1, BoardParseStart)
    IN  IF st.currentCategory # EmptyStr
        THEN [categories |-> Append(st.categories, st.currentCategory),
              questions |-> Append(st.questions, st.currentQuestions)]
        ELSE [categories |-> st.categories, questions |-> st.questions]

-----------------------------------------------------------------------------
(* The authoring form and the texts it emits.  A form is the title field   *)
(* and the category sections, each a name field and clue items (value      *)
(* label, question field, answer field); formTeams is the form's team      *)
(* list.  An emitted text is given as its lines (the text split at its     *)
(* newlines).                                                              *)

\* The result `null` of the two board-text builders.
NullText == [ok |-> FALSE, text |-> <<>>, title |-> EmptyStr]

RECURSIVE Concat(_)
Concat(blocks) ==
    IF blocks = <<>> THEN <<>> ELSE Head(blocks) \o Concat(Tail(blocks))

TitleLabel == <<"T","i","t","l","e",":"," ">>

CategoryLabel == <<"C","a","t","e","g","o","r","y",":"," ">>

CreatedLabel == <<"C","r","e","a","t","e","d",":"," ">>

TeamsLabel == <<"T","e","a","m","s",":"," ">>

\* The row template `${value}|${question}|${answer}`.
RowLine(v, q, a) == v \o Bar \o q \o Bar \o a

\* Only use first 5 categories.
FirstSections(sections) ==
    SubSeq(sections, 1, IF Len(sections) < BoardSize THEN Len(sections) ELSE BoardSize)

SectionNamed(section) == Trim(section.name) # EmptyStr

TrimmedClue(item) ==
    [value |-> item.value, answer |-> Trim(item.answer), question |-> Trim(item.question)]

ClueFilled(q) == q.answer # EmptyStr /\ q.question # EmptyStr

\* The section walk of createBoardFromForm.
BoardFormCollect(form) ==
    LET sections == FirstSections(form.categories)
        named == SelectSeq(sections, SectionNamed)
        items(i) == [k \in 1..Len(named[i].clues) |-> TrimmedClue(named[i].clues[k])]
        allQuestions == [i \in 1..Len(named) |-> SelectSeq(items(i), ClueFilled)]
    IN  [categories |-> [i \in 1..Len(named) |-> Trim(named[i].name)],
         allQuestions |-> allQuestions,
         hasEmptyFields |->
             \/ \E i \in 1..Len(sections) : ~SectionNamed(sections[i])
             \/ \E i \in 1..Len(named) :
                    \/ \E k \in 1..Len(items(i)) :
                           items(i)[k].answer = EmptyStr \/ items(i)[k].question = EmptyStr
                    \/ Len(allQuestions[i]) < BoardSize]

BoardFormText(title, categories, allQuestions) ==
    <<TitleLabel \o title, EmptyStr>>
    \o Concat([c \in 1..Len(categories) |->
                  <<CategoryLabel \o categories[c]>>
                  \o [r \in 1..Len(allQuestions[c]) |->
                         RowLine(allQuestions[c][r].value, allQuestions[c][r].question,
                                 allQuestions[c][r].answer)]
                  \o <<EmptyStr>>])
    \o <<EmptyStr>>

\* createBoardFromForm without the test of the title.
createBoardFromFormAnyTitle(form) ==
    LET boardTitle == Trim(form.title)
        got == BoardFormCollect(form)
    IN  IF Len(form.categories) < BoardSize THEN NullText
        ELSE IF got.hasEmptyFields THEN NullText
        ELSE [ok |-> TRUE,
              text |-> BoardFormText(boardTitle, got.categories, got.allQuestions),
              title |-> boardTitle]

\* The part of createBoardFromForm that decides and builds the board text.
createBoardFromForm(form) ==
    LET boardTitle == Trim(form.title)
        got == BoardFormCollect(form)
    IN  IF boardTitle = EmptyStr THEN NullText
        ELSE IF Len(form.categories) < BoardSize THEN NullText
        ELSE IF got.hasEmptyFields THEN NullText
        ELSE IF \/ Len(got.categories) # BoardSize
                \/ \E c \in 1..Len(got.allQuestions) : Len(got.allQuestions[c]) # BoardSize
             THEN NullText
        ELSE [ok |-> TRUE,
              text |-> BoardFormText(boardTitle, got.categories, got.allQuestions),
              title |-> boardTitle]

\* The section walk of createBoardTextFromForm.
BoardTextCollect(form) ==
    LET sections == FirstSections(form.categories)
        named == SelectSeq(sections, SectionNamed)
        items(i) == [k \in 1..Len(named[i].clues) |-> TrimmedClue(named[i].clues[k])]
        allQuestions == [i \in 1..Len(named) |-> SelectSeq(items(i), ClueFilled)]
    IN  [categories |-> [i \in 1..Len(named) |-> Trim(named[i].name)],
         allQuestions |-> allQuestions,
         hasEmptyFields |->
             \/ \E i \in 1..Len(sections) : ~SectionNamed(sections[i])
             \/ \E i \in 1..Len(named) :
                    \/ \E k \in 1..Len(items(i)) : ~ClueFilled(items(i)[k])
                    \/ Len(allQuestions[i]) < BoardSize]

BoardTextLines(title, categories, allQuestions) ==
    <<TitleLabel \o title, EmptyStr>>
    \o Concat([c \in 1..Len(categories) |->
                  <<CategoryLabel \o categories[c]>>
                  \o [r \in 1..Len(allQuestions[c]) |->
                         RowLine(allQuestions[c][r].value, allQuestions[c][r].question,
                                 allQuestions[c][r].answer)]
                  \o <<EmptyStr>>])
    \o <<EmptyStr>>

createBoardTextFromForm(form) ==
    LET boardTitle == Trim(form.title)
        got == BoardTextCollect(form)
    IN  IF boardTitle = EmptyStr THEN NullText
        ELSE IF Len(form.categories) < BoardSize THEN NullText
        ELSE IF got.hasEmptyFields THEN NullText
        ELSE IF \/ Len(got.categories) # BoardSize
                \/ \E c \in 1..Len(got.allQuestions) : Len(got.allQuestions[c]) # BoardSize
             THEN NullText
        ELSE [ok |-> TRUE,
              text |-> BoardTextLines(boardTitle, got.categories, got.allQuestions),
              title |-> boardTitle]

gatherFormData(form, formTeams) ==
    [title |-> Trim(form.title),
     categories |-> [c \in 1..Len(form.categories) |->
                        [name |-> Trim(form.categories[c].name),
                         clues |-> [k \in 1..Len(form.categories[c].clues) |->
                                       [value |-> form.categories[c].clues[k].value,
                                        answer |-> form.categories[c].clues[k].answer,
                                        question |-> form.categories[c].clues[k].question]]]],
     teams |-> formTeams]

isFormComplete(formData) ==
    /\ formData.title # EmptyStr
    /\ Len(formData.categories) >= BoardSize
    /\ \A c \in 1..Len(formData.categories) :
           /\ formData.categories[c].name # EmptyStr
           /\ Len(formData.categories[c].clues) >= BoardSize
           /\ \A k \in 1..Len(formData.categories[c].clues) :
                  /\ formData.categories[c].clues[k].answer # EmptyStr
                  /\ formData.categories[c].clues[k].question # EmptyStr

TeamSeparator == <<",", " ">>

\* createDraftFromForm at the instant whose ISO-8601 text is `now`.
createDraftFromForm(formData, now) ==
    <<DraftMarker,
      TitleLabel \o formData.title,
      CreatedLabel \o now,
      TeamsLabel \o Join([t \in 1..Len(formData.teams) |-> formData.teams[t].name],
                          TeamSeparator),
      EmptyStr>>
    \o Concat([c \in 1..Len(formData.categories) |->
                  <<CategoryLabel \o formData.categories[c].name>>
                  \o [k \in 1..Len(formData.categories[c].clues) |->
                         RowLine(formData.categories[c].clues[k].value,
                                 formData.categories[c].clues[k].question,
                                 formData.categories[c].clues[k].answer)]
                  \o <<EmptyStr>>])
    \o <<EmptyStr>>

-----------------------------------------------------------------------------
(* Input texts for the validators and parsers.  A text is a header (the    *)
(* lines before the first category) followed by category blocks; all but   *)
(* at most MaxDeviations blocks are complete 5-row categories.             *)

MaxCategories == 6

MaxDeviations == 1

Blank == EmptyStr

LineTitle == <<"T","i","t","l","e",":"," ","G">>

LineTitleLower == <<" ","t","i","t","l","e",":","g">>

LineNoTitle == <<"G","a","m","e">>

LineMarkerPadded == <<" ">> \o DraftMarker \o <<" ">>

LineCategoryA == <<"C","a","t","e","g","o","r","y",":"," ","A">>

LineCategoryUpper == <<"C","A","T","E","G","O","R","Y",":","B">>

LineCategoryNoName == <<"C","a","t","e","g","o","r","y",":">>

\* The value ladder the authoring form prints: 100, 200, 300, 400, 500.
ValueText(r) == <<<<"1">>, <<"2">>, <<"3">>, <<"4">>, <<"5">>>>[r] \o <<"0","0">>

GoodRow(r) == RowLine(ValueText(r), <<"q">>, <<"a">>)

GoodRows(n) == [r \in 1..n |-> GoodRow(r)]

Headers ==
    { <<LineTitle, Blank>>,
      <<LineTitleLower>>,
      <<LineNoTitle>>,
      <<Blank, LineTitle>>,
      <<DraftMarker, LineTitle>>,
      <<Blank>> }

\* Headers that combine with deviating blocks.
DeviationHeaders == { <<LineTitle, Blank>>, <<LineMarkerPadded, LineTitle>> }

BlockFull == <<LineCategoryA>> \o GoodRows(5) \o <<Blank>>

DeviantBlocks ==
    { \* three rows only
      <<LineCategoryA>> \o GoodRows(3) \o <<Blank>>,
      \* a row whose answer is missing
      <<LineCategoryA>> \o GoodRows(4) \o <<RowLine(ValueText(5), <<"q">>, <<" ">>)>>,
      \* a row whose question is missing
      <<LineCategoryUpper>> \o GoodRows(4) \o <<RowLine(ValueText(5), EmptyStr, <<"a">>)>>,
      \* a row whose third field is empty and whose answer is "|b"
      <<LineCategoryA>> \o GoodRows(4) \o <<RowLine(ValueText(5), <<"q">>, <<"|","b">>), Blank>>,
      \* answers that contain a bar
      <<LineCategoryUpper>> \o [r \in 1..5 |-> RowLine(ValueText(r), <<"q">>, <<"a","|","b">>)],
      \* a category without a name
      <<LineCategoryNoName>> \o GoodRows(5),
      \* six rows
      <<LineCategoryA>> \o GoodRows(5) \o <<GoodRow(1)>>,
      \* a marker line inside the category
      <<LineCategoryA>> \o GoodRows(2) \o <<LineMarkerPadded>> \o SubSeq(GoodRows(5), 3, 5),
      \* lines that are no rows: no digits, no bar, two fields only
      <<LineCategoryA>> \o GoodRows(4)
          \o <<RowLine(<<"x">>, <<"q">>, <<"a">>), RowLine(EmptyStr, <<"q">>, <<"a">>),
               ValueText(5), ValueText(5) \o Bar \o <<"q">> >> }

\* n blocks, complete except at the positions of dev.
BlocksOf(n, dev) ==
    [i \in 1..n |-> IF i \in DOMAIN dev THEN dev[i] ELSE BlockFull]

DeviationsOf(n) ==
    UNION { [S -> DeviantBlocks] :
              S \in {T \in SUBSET (1..n) : Cardinality(T) <= MaxDeviations} }

ValidatorTexts ==
    UNION { { h \o Concat(BlocksOf(n, <<>>)) : h \in Headers } \cup
            { h \o Concat(BlocksOf(n, dev)) :
                  h \in DeviationHeaders, dev \in DeviationsOf(n) }
          : n \in 0..MaxCategories }

-----------------------------------------------------------------------------
(* Input texts for the parsers: a title line, one category line and one    *)
(* line built from a value, a question and 1..MaxAnswerFields further      *)
(* fields.                                                                 *)

MaxAnswerFields == 2

RowExample ==
    <<"2","0","0","|","C","a","p","i","t","a","l"," ","o","f"," ","F","r","a","n","c","e","|","P","a","r","i","s","|","F","r","a","n","c","e">>

FieldTexts == { <<"a">>, EmptyStr, <<" ","b"," ">> }

AnswerTails ==
    UNION { { Join(fs, Bar) : fs \in [1..n -> FieldTexts] } : n \in 1..MaxAnswerFields }

RowPool ==
    { RowLine(v, q, a) :
        v \in { <<"2","0","0">>, <<" ","7">> },
        q \in { <<"q">>, <<" ","q"," ">>, EmptyStr },
        a \in AnswerTails }
    \cup { RowExample,
           RowLine(<<"x">>, <<"q">>, <<"a">>),
           <<"1","0","0">> \o Bar \o <<"q">> }

ParserTexts == { <<LineTitle, LineCategoryA, row>> : row \in RowPool }

-----------------------------------------------------------------------------
(* parseTitleFromText: the first match of its regular expression.          *)

\* s with its leading white space removed, as [\s\t]* and \s* consume it.
TrimStart(s) ==
    LET keep == {i \in 1..Len(s) : ~IsWhite(s[i])}
    IN  IF keep = {} THEN EmptyStr
        ELSE SubSeq(s, CHOOSE i \in keep : \A j \in keep : i <= j, Len(s))

TitleWord == <<"t","i","t","l","e">>

\* The capture of /^[\s\t]*title\s*:(.*)$/im when `title` is on line j, if any:
\* <<>> or <<capture>>.  \s* may run over line ends.
RECURSIVE ColonAfter(_, _)
ColonAfter(lines, k) ==
    IF k > Len(lines) THEN <<>>
    ELSE LET t == TrimStart(lines[k])
         IN  IF t = EmptyStr THEN ColonAfter(lines, k + 1)
             ELSE IF t[1] = ":" THEN <<Substring(t, 1)>>
             ELSE <<>>

TitleMatchAt(lines, j) ==
    LET t == TrimStart(lines[j])
    IN  IF ~StartsWith(ToLowerCase(t), TitleWord) THEN <<>>
        ELSE LET rest == TrimStart(Substring(t, 5))
             IN  IF rest = EmptyStr THEN ColonAfter(lines, j + 1)
                 ELSE IF rest[1] = ":" THEN <<Substring(rest, 1)>>
                 ELSE <<>>

parseTitleFromText(lines) ==
    LET hits == {j \in 1..Len(lines) : TitleMatchAt(lines, j) # <<>>}
    IN  IF hits = {} THEN EmptyStr
        ELSE Trim(TitleMatchAt(lines, CHOOSE j \in hits : \A k \in hits : j <= k)[1])

-----------------------------------------------------------------------------
(* Input texts for the line structure: every text of 1..MaxLines lines    *)
(* drawn from title lines, category lines with and without a name, and a   *)
(* clue row.                                                               *)

MaxLines == 3

LineTitleSpaced == <<"t","i","t","l","e"," ",":","h">>

StructureLines ==
    {LineTitle, LineTitleLower, LineTitleSpaced, LineCategoryA, LineCategoryNoName,
     GoodRow(1)}

StructureTexts == UNION { [1..n -> StructureLines] : n \in 1..MaxLines }

-----------------------------------------------------------------------------
(* Form states for the text builders.  A form has n sections (0..5) filled *)
(* with distinct names, questions and answers, and at most MaxEdits of its *)
(* fields replaced by a text of FieldPool.  The replaceable fields are the *)
(* title and, in the first and the last section, the name and the          *)
(* question and answer of the first and the last clue item.                *)

MaxEdits == 1

SectionLetters == <<"A", "B", "C", "D", "E">>

RowDigits == <<"1", "2", "3", "4", "5">>

BaseTitle == <<"G">>

BaseName(c) == <<SectionLetters[c]>>

BaseQuestion(c, r) == <<"q", SectionLetters[c], RowDigits[r]>>

BaseAnswer(c, r) == <<"a", SectionLetters[c], RowDigits[r]>>

FieldPool ==
    { EmptyStr, <<" ", "x", " ">>, <<"x", "|", "y">>, <<"|", "x">>, <<"x", "|">> }

EditSlots(n) ==
    LET ends == {c \in {1, n} : 1 <= c /\ c <= n}
    IN  {[f |-> "title", c |-> 0, r |-> 0]}
        \cup {[f |-> "name", c |-> c, r |-> 0] : c \in ends}
        \cup {[f |-> f, c |-> c, r |-> r] :
                 f \in {"question", "answer"}, c \in ends, r \in {1, BoardSize}}

EditsOf(n) ==
    UNION { [S -> FieldPool] :
              S \in {T \in SUBSET EditSlots(n) : Cardinality(T) <= MaxEdits} }

FormOf(n, e) ==
    LET field(f, c, r, base) ==
            IF [f |-> f, c |-> c, r |-> r] \in DOMAIN e
            THEN e[[f |-> f, c |-> c, r |-> r]] ELSE base
    IN  [title |-> field("title", 0, 0, BaseTitle),
         categories |->
             [c \in 1..n |->
                 [name |-> field("name", c, 0, BaseName(c)),
                  clues |-> [r \in 1..BoardSize |->
                                [value |-> ValueText(r),
                                 question |-> field("question", c, r, BaseQuestion(c, r)),
                                 answer |-> field("answer", c, r, BaseAnswer(c, r))]]]]]

Forms == UNION { { FormOf(n, e) : e \in EditsOf(n) } : n \in 0..BoardSize }

TeamOne == [name |-> <<"T","e","a","m"," ","1">>, score |-> 0]

TeamTwo == [name |-> <<"R","e","d">>, score |-> 0]

FormTeamLists == { <<>>, <<TeamOne>>, <<TeamOne, TeamTwo>> }

NowText == <<"2","0","2","5","-","0","6","-","0","7","T","1","2",":","0","0",":","0","0",".","0","0","0","Z">>

-----------------------------------------------------------------------------
(* Session state.  localStorage maps each key to <<>> (no item) or <<v>>   *)
(* (an item whose JSON text denotes v): the program stores strings, arrays *)
(* and plain objects of strings and numbers, which JSON.stringify and      *)
(* JSON.parse give back unchanged.  page holds the script's variables and  *)
(* the parts of the document the handlers read or switch:                  *)
(*   phase             "loading" until the DOMContentLoaded handlers ran   *)
(*   dialog            the modal dialog that is open, if any               *)
(*   visible           which panels are displayed                          *)
(*   titleText         <<>> or <<t>>: the #title element when displayed    *)
(*   teams, fileTeams, formTeams        the three team arrays              *)
(*   form              the authoring form's fields                         *)
(*   uploadedFileText  <<>> (undefined) or <<text>>                        *)
(*   gameReads         texts of the Play control's reads still pending     *)
(*   cells             per cell <<row, col>>: its h3 text, question, answer *)
(*   usedCells         cells <<row, col>> with class `used`                *)
(*   lastCellValue, lastCell            the prompt's cell bookkeeping      *)
(*   uncaught          a handler of this page ended in an uncaught error   *)
(* A slot is <<>> when the item is absent, <<v>> when it holds the JSON    *)
(* text of v, and CorruptItem when it holds a text that is not JSON.       *)
(* The create form and the team setup lie inside #upload-controls, so a    *)
(* panel is usable when it and #upload-controls are both displayed.        *)

SlotKeys ==
    {"jeopardyBoard", "jeopardyTitle", "jeopardyUsedCells", "jeopardyTeams",
     "jeopardyFormDraft"}

NoItems == [k \in SlotKeys |-> <<>>]

\* storage.save(key, data)
StorageSave(store, key, data) == [store EXCEPT ![key] = <<data>>]

\* storage.load(key, defaultValue)
StorageLoad(store, key, defaultValue) ==
    IF store[key] # <<>> THEN store[key][1] ELSE defaultValue

\* An item whose text JSON.parse rejects.
CorruptItem == <<"not", "JSON">>

\* storage.load(key) ends in the SyntaxError of JSON.parse.
LoadThrows(store, key) == Len(store[key]) = 2

\* storage.remove(key)
StorageRemove(store, key) == [store EXCEPT ![key] = <<>>]

\* storage.clear(...keys)
StorageClear(store, keys) == [k \in SlotKeys |-> IF k \in keys THEN <<>> ELSE store[k]]

\* The text '' (its split is ['']); the only falsy text.
EmptyText == <<EmptyStr>>

\* The value null of loadBoardText and of storage.load('jeopardyFormDraft').
Null == <<>>

loadBoardText(store) == StorageLoad(store, "jeopardyBoard", Null)

\* `saved` as a condition.
TextTruthy(text) == text # Null /\ text # EmptyText

EmptyForm == [title |-> EmptyStr, categories |-> <<>>]

AllHidden ==
    [controls |-> TRUE, createForm |-> FALSE, teamSetup |-> FALSE, game |-> FALSE,
     stats |-> FALSE, resetContainer |-> FALSE, notification |-> FALSE]

BoardCells == (0..(BoardSize - 1)) \X (0..(BoardSize - 1))

\* The h3 text generateGameBoard gives the cells of a row: (row + 1) * 100.
RowValueText(row) == <<<<"1">>, <<"2">>, <<"3">>, <<"4">>, <<"5">>>>[row + 1] \o <<"0", "0">>

\* The cells generateGameBoard creates.
EmptyCells ==
    [cell \in BoardCells |->
        [value |-> RowValueText(cell[1]), question |-> EmptyStr, answer |-> EmptyStr]]

\* The page as the browser hands it to the script.
FreshPage ==
    [phase |-> "loading", dialog |-> "none", visible |-> AllHidden,
     titleText |-> <<>>, teams |-> <<>>, fileTeams |-> <<>>, formTeams |-> <<>>,
     form |-> EmptyForm, uploadedFileText |-> <<>>,
     gameReads |-> <<>>, cells |-> EmptyCells, usedCells |-> {},
     lastCellValue |-> 0, lastCell |-> <<>>, uncaught |-> FALSE]

SessionIdle == localStorage = NoItems /\ page = FreshPage

IdleProbe ==
    [fn |-> "none", arg |-> <<>>, done |-> FALSE,
     ret |-> [isValid |-> FALSE, message |-> ""], read |-> FALSE,
     back |-> [isValid |-> FALSE, message |-> ""]]

-----------------------------------------------------------------------------
(* Specification of the pure text functions: a function is applied to an   *)
(* input text and its result recorded.                                     *)

(* Marked draft texts with a teams line: the line is written from a list   *)
(* of name tokens, and 0..MaxDraftRows clue rows follow one category line. *)

MaxTeamNames == 2

MaxDraftRows == 2

NameTokens == { <<"A">>, <<" ", "B">>, <<"C", " ">>, EmptyStr }

TokenLists == UNION { [1..n -> NameTokens] : n \in 1..MaxTeamNames }

LineTitleX == TitleLabel \o <<"X">>

LineCategoryC1 == CategoryLabel \o <<"C", "1">>

DraftWithTeams(tokens, rows) ==
    <<DraftMarker, LineTitleX, TeamsLabel \o Join(tokens, <<",">>), Blank, LineCategoryC1>>
    \o [r \in 1..rows |-> RowLine(ValueText(r), <<"q">>, <<"a">>)]
    \o <<Blank>>

TeamsTexts ==
    { DraftWithTeams(tokens, rows) : tokens \in TokenLists, rows \in 0..MaxDraftRows }

\* The import parser of the Edit control up to the data it hands to the
\* form: the parse, and the default team when the parse found no team.
ImportDraft(lines) ==
    LET parsed == ParseDraftImport(lines)
    IN  [parsed EXCEPT !.teams = IF Len(@) = 0 THEN <<TeamOne>> ELSE @]

ValidatorNames == {"validateGameFile", "validateDraftFile"}

ParserNames == {"draftImport", "gameImport", "populateBoard"}

NoResult == [isValid |-> FALSE, message |-> ""]

TextInit ==
    /\ SessionIdle
    /\ probe \in [fn : ValidatorNames, arg : ValidatorTexts, done : {FALSE},
               ret : {NoResult}, read : {FALSE}, back : {NoResult}]
              \cup
              [fn : ParserNames, arg : ParserTexts \cup StructureTexts, done : {FALSE},
               ret : {NoResult}, read : {FALSE}, back : {NoResult}]
              \cup
              [fn : {"parseTitleFromText"}, arg : StructureTexts, done : {FALSE},
               ret : {NoResult}, read : {FALSE}, back : {NoResult}]
              \cup
              [fn : {"importDraft"}, arg : TeamsTexts, done : {FALSE},
               ret : {NoResult}, read : {FALSE}, back : {NoResult}]

CallValidateGameFile ==
    /\ ~probe.done /\ probe.fn = "validateGameFile"
    /\ probe' = [probe EXCEPT !.done = TRUE, !.ret = validateGameFile(probe.arg)]
    /\ UNCHANGED sessionVars

CallValidateDraftFile ==
    /\ ~probe.done /\ probe.fn = "validateDraftFile"
    /\ probe' = [probe EXCEPT !.done = TRUE, !.ret = validateDraftFile(probe.arg)]
    /\ UNCHANGED sessionVars

CallParseDraftImport ==
    /\ ~probe.done /\ probe.fn = "draftImport"
    /\ probe' = [probe EXCEPT !.done = TRUE, !.ret = ParseDraftImport(probe.arg)]
    /\ UNCHANGED sessionVars

CallParseGameImport ==
    /\ ~probe.done /\ probe.fn = "gameImport"
    /\ probe' = [probe EXCEPT !.done = TRUE, !.ret = ParseGameImport(probe.arg)]
    /\ UNCHANGED sessionVars

CallParseBoardText ==
    /\ ~probe.done /\ probe.fn = "populateBoard"
    /\ probe' = [probe EXCEPT !.done = TRUE, !.ret = ParseBoardText(probe.arg)]
    /\ UNCHANGED sessionVars

CallParseTitleFromText ==
    /\ ~probe.done /\ probe.fn = "parseTitleFromText"
    /\ probe' = [probe EXCEPT !.done = TRUE,
                              !.ret = [title |-> parseTitleFromText(probe.arg)]]
    /\ UNCHANGED sessionVars

CallImportDraft ==
    /\ ~probe.done /\ probe.fn = "importDraft"
    /\ probe' = [probe EXCEPT !.done = TRUE, !.ret = ImportDraft(probe.arg)]
    /\ UNCHANGED sessionVars

TextNext ==
    \/ CallImportDraft
    \/ CallValidateGameFile
    \/ CallValidateDraftFile
    \/ CallParseDraftImport
    \/ CallParseGameImport
    \/ CallParseBoardText
    \/ CallParseTitleFromText

SpecText == TextInit /\ [][TextNext]_vars

-----------------------------------------------------------------------------
(* Specification of the form's text builders: a builder is applied to a    *)
(* form, and the text it emits is read back by the parser that consumes it *)
(* (the board parser for a game text, the draft import parser for a draft  *)
(* text).                                                                  *)

GameBuilders == {"createBoardFromForm", "createBoardTextFromForm"}

FormInit ==
    /\ SessionIdle
    /\ probe \in [fn : GameBuilders,
               arg : [form : Forms, formTeams : {<<>>}],
               done : {FALSE}, ret : {NoResult}, read : {FALSE}, back : {NoResult}]
              \cup
              [fn : {"createDraftFromForm"},
               arg : [form : Forms, formTeams : FormTeamLists],
               done : {FALSE}, ret : {NoResult}, read : {FALSE}, back : {NoResult}]

CallCreateBoardFromForm ==
    /\ ~probe.done /\ probe.fn = "createBoardFromForm"
    /\ probe' = [probe EXCEPT !.done = TRUE, !.ret = createBoardFromForm(probe.arg.form)]
    /\ UNCHANGED sessionVars

CallCreateBoardTextFromForm ==
    /\ ~probe.done /\ probe.fn = "createBoardTextFromForm"
    /\ probe' = [probe EXCEPT !.done = TRUE,
                              !.ret = createBoardTextFromForm(probe.arg.form)]
    /\ UNCHANGED sessionVars

CallCreateDraftFromForm ==
    /\ ~probe.done /\ probe.fn = "createDraftFromForm"
    /\ probe' = [probe EXCEPT
                   !.done = TRUE,
                   !.ret = [ok |-> TRUE,
                            text |-> createDraftFromForm(
                                         gatherFormData(probe.arg.form, probe.arg.formTeams),
                                         NowText),
                            title |-> Trim(probe.arg.form.title)]]
    /\ UNCHANGED sessionVars

ReadGameText ==
    /\ probe.done /\ ~probe.read /\ probe.fn \in GameBuilders /\ probe.ret.ok
    /\ probe' = [probe EXCEPT !.read = TRUE, !.back = ParseBoardText(probe.ret.text)]
    /\ UNCHANGED sessionVars

ReadDraftText ==
    /\ probe.done /\ ~probe.read /\ probe.fn = "createDraftFromForm"
    /\ probe' = [probe EXCEPT !.read = TRUE, !.back = ParseDraftImport(probe.ret.text)]
    /\ UNCHANGED sessionVars

FormNext ==
    \/ CallCreateBoardFromForm
    \/ CallCreateBoardTextFromForm
    \/ CallCreateDraftFromForm
    \/ ReadGameText
    \/ ReadDraftText

SpecForm == FormInit /\ [][FormNext]_vars

-----------------------------------------------------------------------------
(* The session: page load, the Play upload, team setup, the authoring      *)
(* form, the game prompt and reset.                                        *)

MaxTeams == 1

MaxReads == 1

MaxScore == 100

\* The files offered to the Play control.
FileComplete == <<LineTitle, Blank>> \o Concat(BlocksOf(5, <<>>))

FileSixCategories == <<LineTitle, Blank>> \o Concat(BlocksOf(6, <<>>))

FileNamelessCategory ==
    <<LineTitle, Blank>>
    \o Concat(BlocksOf(5, 3 :> (<<LineCategoryNoName>> \o GoodRows(5))))

FileMarked == <<DraftMarker, LineTitle>> \o Concat(BlocksOf(5, <<>>))

\* A complete game whose first row carries the value 50.
FileOddValue ==
    <<LineTitle, Blank>>
    \o Concat(BlocksOf(5, 1 :> (<<LineCategoryA, RowLine(<<"5", "0">>, <<"q">>, <<"a">>)>>
                                \o SubSeq(GoodRows(5), 2, 5) \o <<Blank>>)))

PlayFiles == {FileComplete, FileSixCategories, FileMarked, FileOddValue}

\* The forms the user types: complete, a question that starts with a bar,
\* a question that contains a bar, an unnamed category.
FormComplete == FormOf(5, <<>>)

FormBarFirst == FormOf(5, [f |-> "question", c |-> 1, r |-> 1] :> <<"|", "x">>)

FormBarInside == FormOf(5, [f |-> "question", c |-> 1, r |-> 1] :> <<"x", "|", "y">>)

FormUnnamed == FormOf(5, [f |-> "name", c |-> 1, r |-> 0] :> EmptyStr)

SessionForms == {FormComplete, FormBarFirst}

\* The cells the players open.
ClickCells == {<<0, 0>>}

\* The name typed over a team's name in the stats table.
EditedName == <<"R", "e", "d">>

\* `Team ${n}`
TeamName(n) == <<"T", "e", "a", "m", " ", RowDigits[n]>>

NewTeam(n) == [name |-> TeamName(n), score |-> 0]

DigitValue == [d \in Digits |-> CHOOSE n \in 0..9 : ToString(n) = d]

\* parseInt(s, 10) || 0
RECURSIVE ParseIntPrefix(_, _)
ParseIntPrefix(s, acc) ==
    IF s = EmptyStr \/ Head(s) \notin Digits THEN acc
    ELSE ParseIntPrefix(Tail(s), 10 * acc + DigitValue[Head(s)])

ParseInt(s) == ParseIntPrefix(TrimStart(s), 0)

\* What populateJeopardyBoardFromText(text) changes on the page: the board
\* is generated anew and the cells the text has a row for are filled.
\* The cells after populateJeopardyBoardFromText, given the questions it
\* parsed: generated anew, then filled where the text has a row.
FilledCells(questions) ==
    [cell \in BoardCells |->
        IF /\ cell[2] + 1 <= Len(questions)
           /\ cell[1] + 1 <= Len(questions[cell[2] + 1])
        THEN questions[cell[2] + 1][cell[1] + 1]
        ELSE EmptyCells[cell]]

\* The board texts of the session: the accepted files and the texts the
\* form writes; each is parsed once.
BoardTexts ==
    {file \in PlayFiles : validateGameFile(file).isValid}
    \cup {createBoardFromForm(form).text : form \in SessionForms}

ParsedBoards == [text \in BoardTexts |-> ParseBoardText(text)]

CellTable == [text \in BoardTexts |-> FilledCells(ParsedBoards[text].questions)]

\* parseTitleFromText on the board texts, computed once per text.
BoardTitle == [text \in BoardTexts |-> parseTitleFromText(text)]

\* The cells of a board text: from the table for the texts of the session.
BoardCellsOf(text) ==
    IF text \in BoardTexts THEN CellTable[text]
    ELSE FilledCells(ParseBoardText(text).questions)

Populate(pg, text) ==
    [pg EXCEPT !.cells = BoardCellsOf(text),
               !.usedCells = {},
               !.visible = [@ EXCEPT !.game = TRUE, !.controls = FALSE,
                                     !.stats = TRUE, !.resetContainer = TRUE]]

TitleShown(title) == IF title # EmptyStr THEN <<title>> ELSE <<>>

\* saveTeams() that writes nothing.
SaveTeamsNever(store, teamList) == store

\* A saveTeams that stores an empty list whatever the teams are.
SaveTeamsEmpty(store, teamList) == StorageSave(store, "jeopardyTeams", <<>>)

\* saveTeams()
SaveTeams(store, teamList) == StorageSave(store, "jeopardyTeams", teamList)

BlankSection ==
    [name |-> EmptyStr,
     clues |-> [r \in 1..BoardSize |->
                   [value |-> ValueText(r), question |-> EmptyStr, answer |-> EmptyStr]]]

\* The form reinitializeForm leaves.
BlankForm == [title |-> EmptyStr, categories |-> [c \in 1..BoardSize |-> BlankSection]]

\* The form loadFormDraft fills from a saved draft, over a blank form.
FormOfDraft(draft) ==
    [title |-> draft.title,
     categories |->
         [c \in 1..BoardSize |->
             IF c > Len(draft.categories) THEN BlankSection
             ELSE [name |-> draft.categories[c].name,
                   clues |-> [r \in 1..BoardSize |->
                                 IF r > Len(draft.categories[c].clues)
                                 THEN BlankSection.clues[r]
                                 ELSE [value |-> ValueText(r),
                                       question |-> draft.categories[c].clues[r].question,
                                       answer |-> draft.categories[c].clues[r].answer]]]]]

\* validateFormBeforeSubmission: no required field is blank.
validateFormBeforeSubmission(form) ==
    \A c \in 1..Len(form.categories) :
        /\ Trim(form.categories[c].name) # EmptyStr
        /\ \A r \in 1..Len(form.categories[c].clues) :
               /\ Trim(form.categories[c].clues[r].question) # EmptyStr
               /\ Trim(form.categories[c].clues[r].answer) # EmptyStr

Ready == page.phase = "ready"

\* No dialog and no prompt covers the page.
Idle == Ready /\ page.dialog = "none" /\ page.lastCell = <<>>

FormUsable == Idle /\ page.visible.controls /\ page.visible.createForm

SetupUsable == Idle /\ page.visible.controls /\ page.visible.teamSetup

\* validateGameFile and parseTitleFromText on the files of the Play control,
\* computed once per file.
FileValidationAcceptsAll ==
    [file \in PlayFiles |-> [isValid |-> TRUE, type |-> "complete"]]

FileValidation == [file \in PlayFiles |-> validateGameFile(file)]

FileTitle == [file \in PlayFiles |-> parseTitleFromText(file)]

Init ==
    /\ probe = IdleProbe
    /\ localStorage = NoItems
    /\ page = FreshPage

\* The test for the notification looking at the draft alone.
StartupNotifiesDraftOnly(store) == store["jeopardyFormDraft"] # <<>>

\* The test of the first handler for the resume-editing notification.
StartupNotifies(store) ==
    store["jeopardyFormDraft"] # <<>> /\ ~TextTruthy(loadBoardText(store))

\* The first DOMContentLoaded handler: the title is cleared in the form and
\* in storage, then the draft and the board are loaded for the notification;
\* a load that throws ends the handler.
StartupFirst(pg, store) ==
    LET cleared == StorageSave(store, "jeopardyTitle", EmptyStr)
        throws == \/ LoadThrows(cleared, "jeopardyFormDraft")
                  \/ LoadThrows(cleared, "jeopardyBoard")
    IN  [page |-> [pg EXCEPT
                     !.form = [@ EXCEPT !.title = EmptyStr],
                     !.uncaught = throws,
                     !.visible = [@ EXCEPT
                                    !.stats = FALSE,
                                    !.notification = ~throws /\ StartupNotifies(cleared)]],
         store |-> cleared]

\* loadTeams() at the end of the restore handler.
StartupTeams(pg, store) ==
    IF LoadThrows(store, "jeopardyTeams")
    THEN [page |-> [pg EXCEPT !.uncaught = TRUE], store |-> store]
    ELSE LET loadedTeams == StorageLoad(store, "jeopardyTeams", <<>>)
         IN  [page |-> [pg EXCEPT !.teams = loadedTeams],
              store |-> SaveTeams(store, loadedTeams)]

\* The restore handler: title, board, used cells, teams, in this order; a
\* load that throws ends the handler where it stands.
StartupRestore(pg, store) ==
    IF LoadThrows(store, "jeopardyBoard")
    THEN [page |-> [pg EXCEPT !.uncaught = TRUE], store |-> store]
    ELSE LET saved == loadBoardText(store)
             loaded == StorageLoad(store, "jeopardyTitle", EmptyStr)
             reparse == loaded = EmptyStr /\ TextTruthy(saved)
             savedTitle == IF reparse THEN BoardTitle[saved] ELSE loaded
             titled == IF reparse /\ savedTitle # EmptyStr
                       THEN StorageSave(store, "jeopardyTitle", savedTitle)
                       ELSE store
             shown == [pg EXCEPT !.titleText = TitleShown(savedTitle)]
         IN  IF ~TextTruthy(saved)
             THEN StartupTeams(
                      [shown EXCEPT !.cells = EmptyCells,
                                    !.visible = [@ EXCEPT !.createForm = FALSE]],
                      titled)
             ELSE IF LoadThrows(titled, "jeopardyUsedCells")
             THEN [page |-> [Populate(shown, saved) EXCEPT !.uncaught = TRUE],
                   store |-> titled]
             ELSE StartupTeams(
                      [Populate(shown, saved) EXCEPT
                          !.usedCells = StorageLoad(titled, "jeopardyUsedCells", {})
                                        \cap BoardCells],
                      titled)

\* What the DOMContentLoaded handlers make of a page and a storage, in the
\* order they are registered.
StartupResult(pg, store) ==
    CHOOSE result \in
        { [page |-> [second.page EXCEPT !.phase = "ready"], store |-> second.store] :
            second \in { StartupRestore(first.page, first.store) :
                            first \in {StartupFirst(pg, store)} } } : TRUE

Startup ==
    /\ page.phase = "loading"
    /\ \E result \in {StartupResult(page, localStorage)} :
           /\ page' = result.page
           /\ localStorage' = result.store
    /\ UNCHANGED probe

\* The user reloads or reopens the page, or location.reload() takes effect:
\* the document and the script's variables are lost.
Reload ==
    /\ page.phase \in {"ready", "unloading"}
    /\ page' = FreshPage
    /\ UNCHANGED <<probe, localStorage>>

\* clearAllStorage()
clearAllStorage(store) ==
    StorageClear(store,
                 {"jeopardyBoard", "jeopardyUsedCells", "jeopardyTeams", "jeopardyTitle"})

\* A reset that calls clearAllStorage() only.
ResetStorageClearAllOnly(store) == clearAllStorage(store)

\* What the reset handler removes: the title, the draft, then clearAllStorage().
ResetStorage(store) ==
    clearAllStorage(
        StorageRemove(StorageRemove(store, "jeopardyTitle"), "jeopardyFormDraft"))

\* The reset-board click handler up to its last statement, location.reload():
\* the page stays as the handler left it until the reload takes effect.
Reset ==
    /\ Idle /\ page.visible.resetContainer
    /\ localStorage' = ResetStorage(localStorage)
    /\ page' = [page EXCEPT
                  !.phase = "unloading",
                  !.titleText = <<>>,
                  !.form = [@ EXCEPT !.categories = <<>>],
                  !.visible = [@ EXCEPT !.controls = TRUE, !.createForm = FALSE,
                                        !.teamSetup = FALSE, !.resetContainer = FALSE,
                                        !.stats = FALSE]]
    /\ UNCHANGED probe

\* The load-game-file click handler: it opens the file dialog.
LoadGameFileClick ==
    /\ Idle /\ page.visible.controls
    /\ page' = [page EXCEPT !.fileTeams = <<NewTeam(1)>>,
                            !.visible = [@ EXCEPT !.notification = FALSE],
                            !.dialog = "gameFile"]
    /\ UNCHANGED <<probe, localStorage>>

\* The change handler of jeopardy-game-upload: a read of the file starts.
\* Every selection makes its own FileReader; none is ever aborted.
GameUploadSelect(file, limit) ==
    /\ Ready /\ page.dialog = "gameFile"
    /\ Len(page.gameReads) < limit
    /\ page' = [page EXCEPT !.gameReads = Append(@, file), !.dialog = "none"]

GameUploadChange ==
    /\ \E file \in PlayFiles : GameUploadSelect(file, MaxReads)
    /\ UNCHANGED <<probe, localStorage>>

\* The file dialog is closed without a file.
GameUploadDismiss ==
    /\ Ready /\ page.dialog = "gameFile"
    /\ page' = [page EXCEPT !.dialog = "none"]
    /\ UNCHANGED <<probe, localStorage>>

\* reader.onload of the Play control, for any read that is pending.
GameReadDone ==
    /\ Ready
    /\ \E i \in 1..Len(page.gameReads) :
           LET fileText == page.gameReads[i]
               rest == SubSeq(page.gameReads, 1, i - 1)
                       \o SubSeq(page.gameReads, i + 1, Len(page.gameReads))
               validation == FileValidation[fileText]
           IN  IF ~validation.isValid
               THEN /\ page' = [page EXCEPT !.gameReads = rest]
                    /\ UNCHANGED localStorage
               ELSE /\ localStorage' =
                           StorageSave(
                               StorageSave(localStorage, "jeopardyTitle",
                                           FileTitle[fileText]),
                               "jeopardyBoard", fileText)
                    /\ page' = [page EXCEPT
                                  !.gameReads = rest,
                                  !.visible = [@ EXCEPT !.createForm = FALSE,
                                                        !.teamSetup = TRUE,
                                                        !.stats = FALSE],
                                  !.uploadedFileText = <<fileText>>]
    /\ UNCHANGED probe

\* The file-add-team click handler.
FileAddTeam ==
    /\ SetupUsable /\ Len(page.fileTeams) < MaxTeams
    /\ page' = [page EXCEPT !.fileTeams = Append(@, NewTeam(Len(@) + 1))]
    /\ UNCHANGED <<probe, localStorage>>

\* The Remove button of a file team.
FileRemoveTeam ==
    /\ SetupUsable
    /\ \E i \in 1..Len(page.fileTeams) :
           page' = [page EXCEPT
                      !.fileTeams = SubSeq(@, 1, i - 1) \o SubSeq(@, i + 1, Len(@))]
    /\ UNCHANGED <<probe, localStorage>>

\* The file-teams-continue click handler.
ContinueToGame ==
    /\ SetupUsable /\ page.uploadedFileText # <<>>
    /\ IF page.fileTeams = <<>>
       THEN UNCHANGED <<localStorage, page>>
       ELSE LET saved == SaveTeams(localStorage, page.fileTeams)
                title == StorageLoad(saved, "jeopardyTitle", EmptyStr)
                shown == Populate([page EXCEPT !.teams = page.fileTeams],
                                  page.uploadedFileText[1])
            IN  /\ page' = [shown EXCEPT
                              !.titleText = TitleShown(title),
                              !.usedCells = {},
                              !.visible = [@ EXCEPT !.controls = FALSE,
                                                    !.teamSetup = FALSE,
                                                    !.stats = TRUE]]
                /\ localStorage' =
                       SaveTeams(StorageSave(saved, "jeopardyUsedCells", {}),
                                 page.fileTeams)
    /\ UNCHANGED probe

\* What reinitializeForm changes on the page.
Reinitialized(pg) == [pg EXCEPT !.form = BlankForm, !.formTeams = <<NewTeam(1)>>]

\* The show-create-form click handler; with a saved draft it asks whether to
\* restore it and leaves the form as it is until the answer.
ShowCreateForm ==
    /\ Idle /\ page.visible.controls
    /\ LET opened == [page EXCEPT
                        !.visible = [@ EXCEPT !.createForm = TRUE, !.teamSetup = FALSE,
                                              !.stats = FALSE, !.notification = FALSE]]
       IN  page' = IF localStorage["jeopardyFormDraft"] # <<>>
                   THEN [opened EXCEPT !.dialog = "restoreDraft"]
                   ELSE Reinitialized(opened)
    /\ UNCHANGED <<probe, localStorage>>

\* The answer to `Restore Draft?`: yes loads the draft over a clean form.
RestoreDraft ==
    /\ Ready /\ page.dialog = "restoreDraft"
    /\ LET clean == Reinitialized([page EXCEPT !.dialog = "none"])
       IN  IF localStorage["jeopardyFormDraft"] = <<>>
           THEN page' = clean
           ELSE LET savedDraft == localStorage["jeopardyFormDraft"][1]
                IN  page' = [clean EXCEPT
                               !.form = FormOfDraft(savedDraft),
                               !.formTeams = IF Len(savedDraft.teams) > 0
                                             THEN savedDraft.teams ELSE @]
    /\ localStorage' = localStorage
    /\ UNCHANGED probe

\* discardFormDraft() that removes the teams as well.
discardFormDraftAndTeams(store) ==
    StorageRemove(StorageRemove(store, "jeopardyFormDraft"), "jeopardyTeams")

\* discardFormDraft()
discardFormDraft(store) == StorageRemove(store, "jeopardyFormDraft")

\* The answer no: the draft is discarded and the form is fresh.
DeclineDraft ==
    /\ Ready /\ page.dialog = "restoreDraft"
    /\ localStorage' = discardFormDraft(localStorage)
    /\ page' = Reinitialized([page EXCEPT !.dialog = "none"])
    /\ UNCHANGED probe

\* Input events that leave the form's fields as `typed`; the listener of
\* each field saves gatherFormData(), so the draft is that of the last one.
TypeForm ==
    /\ FormUsable /\ Len(page.form.categories) = BoardSize
    /\ \E typed \in SessionForms :
           /\ typed # page.form
           /\ page' = [page EXCEPT !.form = typed]
           /\ localStorage' =
                  StorageSave(localStorage, "jeopardyFormDraft",
                              gatherFormData(typed, page.formTeams))
    /\ UNCHANGED probe

\* formAddTeamBtn.onclick
FormAddTeam ==
    /\ FormUsable /\ Len(page.formTeams) < MaxTeams
    /\ page' = [page EXCEPT !.formTeams = Append(@, NewTeam(Len(@) + 1))]
    /\ UNCHANGED <<probe, localStorage>>

\* The Remove button of a form team.
FormRemoveTeam ==
    /\ FormUsable
    /\ \E i \in 1..Len(page.formTeams) :
           page' = [page EXCEPT
                      !.formTeams = SubSeq(@, 1, i - 1) \o SubSeq(@, i + 1, Len(@))]
    /\ UNCHANGED <<probe, localStorage>>

\* The discard-draft click handler up to its confirmation dialog.
DiscardDraftClick ==
    /\ FormUsable
    /\ page' = [page EXCEPT !.dialog = "discardDraft"]
    /\ UNCHANGED <<probe, localStorage>>

\* The dialog is confirmed: the draft is removed and the form is made anew.
ConfirmDiscardDraft ==
    /\ Ready /\ page.dialog = "discardDraft"
    /\ localStorage' = discardFormDraft(localStorage)
    /\ page' = Reinitialized([page EXCEPT !.dialog = "none"])
    /\ UNCHANGED probe

CancelDiscardDraft ==
    /\ Ready /\ page.dialog = "discardDraft"
    /\ page' = [page EXCEPT !.dialog = "none"]
    /\ UNCHANGED <<probe, localStorage>>

\* The generate-board click handler: a valid form opens the confirmation.
GenerateBoardClick ==
    /\ FormUsable
    /\ page' = IF validateFormBeforeSubmission(page.form)
               THEN [page EXCEPT !.dialog = "confirmCreate"]
               ELSE page
    /\ UNCHANGED <<probe, localStorage>>

CancelCreateBoard ==
    /\ Ready /\ page.dialog = "confirmCreate"
    /\ page' = [page EXCEPT !.dialog = "none"]
    /\ UNCHANGED <<probe, localStorage>>

\* confirm-create-board: createBoardFromForm(false) as a whole.
ConfirmCreateBoard ==
    /\ Ready /\ page.dialog = "confirmCreate"
    /\ LET made == createBoardFromForm(page.form)
           closed == [page EXCEPT !.dialog = "none"]
       IN  IF ~made.ok
           THEN page' = closed /\ UNCHANGED localStorage
           ELSE LET stored == discardFormDraft(
                                  StorageSave(
                                      StorageSave(localStorage, "jeopardyTitle", made.title),
                                      "jeopardyBoard", made.text))
                    shown == [Populate(closed, made.text) EXCEPT
                                 !.titleText = <<made.title>>]
                    newTeams == IF Len(page.formTeams) > 0 THEN page.formTeams
                                ELSE IF Len(page.teams) = 0 THEN <<NewTeam(1)>>
                                ELSE page.teams
                IN  /\ page' = [shown EXCEPT !.teams = newTeams, !.formTeams = <<>>]
                    /\ localStorage' =
                           IF Len(page.formTeams) > 0 \/ Len(page.teams) = 0
                           THEN SaveTeams(stored, newTeams) ELSE stored
    /\ UNCHANGED probe

\* cell.onclick: the prompt opens for the cell.
ClickCell ==
    /\ Idle /\ page.visible.game
    /\ \E cell \in ClickCells :
           page' = [page EXCEPT
                      !.lastCellValue = ParseInt(page.cells[cell].value),
                      !.lastCell = <<cell>>]
    /\ UNCHANGED <<probe, localStorage>>

\* modifyTeamScore that counts the points twice.
modifyTeamScoreTwice(teamList, idx, points) ==
    [teamList EXCEPT ![idx] = [@ EXCEPT !.score = @ + 2 * points]]

\* modifyTeamScore(teamIndex, points) on the team list.
modifyTeamScore(teamList, idx, points) ==
    [teamList EXCEPT ![idx] = [@ EXCEPT !.score = @ + points]]

\* A closePromptAndFadeCell that fades the whole row of the cell.
MarkRowUsed(used, cell) == used \cup {c \in BoardCells : c[1] = cell[1]}

\* closePromptAndFadeCell: the cell of the prompt gets the class `used`.
MarkUsed(used, cell) == used \cup {cell}

\* handlePromptScoring(isAdd) for the team selected in the prompt; with no
\* team, teams[0] is undefined and the handler stops at the TypeError.
PromptScore(isAdd) ==
    /\ Ready /\ page.lastCell # <<>>
    /\ IF Len(page.teams) = 0
       THEN page' = [page EXCEPT !.uncaught = TRUE] /\ UNCHANGED localStorage
       ELSE \E idx \in 1..Len(page.teams) :
                LET points == IF isAdd THEN page.lastCellValue ELSE 0 - page.lastCellValue
                    scored == modifyTeamScore(page.teams, idx, points)
                    score == scored[idx].score
                    used == MarkUsed(page.usedCells, page.lastCell[1])
                IN  /\ score <= MaxScore /\ 0 - MaxScore <= score
                    /\ page' = [page EXCEPT !.teams = scored, !.usedCells = used,
                                            !.lastCell = <<>>]
                    /\ localStorage' =
                           StorageSave(SaveTeams(localStorage, scored),
                                       "jeopardyUsedCells", used)
    /\ UNCHANGED probe

PromptAddPoints == PromptScore(TRUE)

PromptSubtractPoints == PromptScore(FALSE)

\* statsBody.onclick on the + or - button of a team's row.
StatsScore(isAdd) ==
    /\ Idle /\ page.visible.stats
    /\ \E idx \in 1..Len(page.teams) :
           LET points == IF isAdd THEN page.lastCellValue ELSE 0 - page.lastCellValue
               scored == modifyTeamScore(page.teams, idx, points)
           IN  /\ scored[idx].score <= MaxScore /\ 0 - MaxScore <= scored[idx].score
               /\ page' = [page EXCEPT !.teams = scored]
               /\ localStorage' = SaveTeams(localStorage, scored)
    /\ UNCHANGED probe

StatsAddPoints == StatsScore(TRUE)

StatsSubtractPoints == StatsScore(FALSE)

\* statsBody.oninput on the name field of a team's row.
EditTeamName ==
    /\ Idle /\ page.visible.stats
    /\ \E idx \in 1..Len(page.teams) :
           LET named == [page.teams EXCEPT ![idx] = [@ EXCEPT !.name = EditedName]]
           IN  /\ named # page.teams
               /\ page' = [page EXCEPT !.teams = named]
               /\ localStorage' = SaveTeams(localStorage, named)
    /\ UNCHANGED probe

\* promptCancelBtn.onclick
PromptCancel ==
    /\ Ready /\ page.lastCell # <<>>
    /\ page' = [page EXCEPT !.lastCell = <<>>]
    /\ UNCHANGED <<probe, localStorage>>

Next ==
    \/ Startup
    \/ Reload
    \/ Reset
    \/ LoadGameFileClick
    \/ GameUploadChange
    \/ GameUploadDismiss
    \/ GameReadDone
    \/ FileAddTeam
    \/ FileRemoveTeam
    \/ ContinueToGame
    \/ ShowCreateForm
    \/ RestoreDraft
    \/ DeclineDraft
    \/ TypeForm
    \/ FormAddTeam
    \/ FormRemoveTeam
    \/ GenerateBoardClick
    \/ CancelCreateBoard
    \/ ConfirmCreateBoard
    \/ ClickCell
    \/ PromptAddPoints
    \/ PromptSubtractPoints
    \/ PromptCancel
    \/ StatsAddPoints
    \/ StatsSubtractPoints
    \/ EditTeamName
    \/ DiscardDraftClick
    \/ ConfirmDiscardDraft
    \/ CancelDiscardDraft

Spec == Init /\ [][Next]_vars

------------------------------------------------------------------------------
(* The Play control with more than one read pending. probe.arg remembers   *)
(* the file selected last, which the page itself does not record.          *)

MaxPending == 2

UploadFiles == PlayFiles

\* What the storage holds when the page starts: nothing, or the draft of a
\* form that was typed in an earlier visit.
UploadStores ==
    {NoItems,
     StorageSave(NoItems, "jeopardyFormDraft", gatherFormData(FormComplete, <<TeamOne>>))}

UploadInit ==
    /\ probe = [IdleProbe EXCEPT !.fn = "gameUpload"]
    /\ \E store \in UploadStores :
           \E started \in {StartupResult(FreshPage, store)} :
               /\ page = started.page
               /\ localStorage = started.store

SelectGameFile ==
    /\ \E file \in UploadFiles :
           /\ GameUploadSelect(file, MaxPending)
           /\ probe' = [probe EXCEPT !.arg = file]
    /\ UNCHANGED localStorage

UploadNext ==
    \/ LoadGameFileClick
    \/ SelectGameFile
    \/ GameUploadDismiss
    \/ GameReadDone

SpecUpload == UploadInit /\ [][UploadNext]_vars

------------------------------------------------------------------------------
(* createBoardFromForm on the forms of the text builders: the page shows   *)
(* the form with the confirmation open, and the function runs on whatever  *)
(* the fields hold.                                                        *)

BlankField == <<" ">>

CreateForms ==
    Forms \cup {FormOf(BoardSize, slot :> BlankField) : slot \in EditSlots(BoardSize)}

CreateInit ==
    /\ probe = IdleProbe
    /\ \E store \in UploadStores, form \in CreateForms, formTeams \in {<<>>, <<TeamOne>>} :
           \E started \in {StartupResult(FreshPage, store)} :
               /\ localStorage = started.store
               /\ page = [started.page EXCEPT
                             !.visible = [@ EXCEPT !.createForm = TRUE,
                                                   !.notification = FALSE],
                             !.form = form,
                             !.formTeams = formTeams,
                             !.dialog = "confirmCreate"]

CreateNext == ConfirmCreateBoard \/ CancelCreateBoard

SpecCreate == CreateInit /\ [][CreateNext]_vars

------------------------------------------------------------------------------
(* Startup over the storage the page may find: localStorage outlives the   *)
(* page and is writable by anything of the same origin, so each slot is    *)
(* absent, holds a value of the shape the program writes, or holds text    *)
(* that JSON.parse rejects.                                                *)

OtherTitle == <<"O","l","d">>

ScoredTeam == [name |-> TeamOne.name, score |-> 100]

StartStores ==
    { [jeopardyBoard |-> board, jeopardyUsedCells |-> used, jeopardyTeams |-> teamList,
       jeopardyTitle |-> title, jeopardyFormDraft |-> draft] :
        board \in {<<>>, CorruptItem, <<FileComplete>>},
        used \in {<<>>, CorruptItem, <<{<<0, 0>>}>>},
        teamList \in {<<>>, CorruptItem, << <<ScoredTeam>> >>},
        title \in {<<>>, CorruptItem, <<EmptyStr>>, <<BaseTitle>>, <<OtherTitle>>},
        draft \in {<<>>, CorruptItem, <<gatherFormData(FormComplete, <<TeamOne>>)>>} }

StartInit ==
    /\ probe = IdleProbe
    /\ localStorage \in StartStores
    /\ page = FreshPage

StartNext == Startup \/ Reload

SpecStart == StartInit /\ [][StartNext]_vars

-----------------------------------------------------------------------------
(* Notions the claims are stated in, defined on the text itself.           *)

IsMarkerLine(line) == Trim(line) = DraftMarker

IsCategoryLine(line) == StartsWith(ToLowerCase(Trim(line)), CategoryPrefix)

IsTitleLine(line) == StartsWith(ToLowerCase(Trim(line)), TitlePrefix)

CategoryLines(lines) == {i \in 1..Len(lines) : IsCategoryLine(lines[i])}

\* The lines of the category opened at line i, cats being the category lines
\* of the text: up to the next category line or the end of the input.
CategoryBody(lines, cats, i) ==
    LET later == {j \in cats : j > i}
    IN  IF later = {} THEN (i + 1)..Len(lines)
        ELSE (i + 1)..((CHOOSE j \in later : \A k \in later : j <= k) - 1)

\* The positions of the bars of a line.
BarsOf(line) == {i \in 1..Len(line) : line[i] = "|"}

FirstBar(line) == CHOOSE i \in BarsOf(line) : \A j \in BarsOf(line) : i <= j

SecondBar(line) ==
    CHOOSE i \in BarsOf(line) \ {FirstBar(line)} :
        \A j \in BarsOf(line) \ {FirstBar(line)} : i <= j

\* A clue row: digits, then a bar, and at least three fields.
IsClueRow(line) ==
    LET t == Trim(line)
    IN  /\ Cardinality(BarsOf(t)) >= 2
        /\ FirstBar(t) > 1
        /\ \A i \in 1..(FirstBar(t) - 1) : t[i] \in Digits

RowValue(line) == Trim(SubSeq(line, 1, FirstBar(line) - 1))

RowQuestion(line) == Trim(SubSeq(line, FirstBar(line) + 1, SecondBar(line) - 1))

\* Everything after the second bar, bars included.
RowAnswer(line) == Trim(SubSeq(line, SecondBar(line) + 1, Len(line)))

\* The third field alone: up to the third bar, if there is one.
RowThirdField(line) ==
    LET rest == SubSeq(line, SecondBar(line) + 1, Len(line))
    IN  IF BarsOf(rest) = {} THEN Trim(rest)
        ELSE Trim(SubSeq(rest, 1, FirstBar(rest) - 1))

\* A row with non-empty question and non-empty answer.
IsCompleteRow(line) ==
    IsClueRow(line) /\ RowQuestion(line) # EmptyStr /\ RowAnswer(line) # EmptyStr

\* A row with non-empty question and non-empty third field.
IsFieldCompleteRow(line) ==
    IsClueRow(line) /\ RowQuestion(line) # EmptyStr /\ RowThirdField(line) # EmptyStr

CompleteRows(lines, cats, i) ==
    Cardinality({j \in CategoryBody(lines, cats, i) : IsCompleteRow(lines[j])})

FieldCompleteRows(lines, cats, i) ==
    Cardinality({j \in CategoryBody(lines, cats, i) : IsFieldCompleteRow(lines[j])})

\* The first n of the category lines cats.
FirstCategories(cats, n) ==
    {i \in cats : Cardinality({j \in cats : j < i}) < n}

GameCalled == probe.done /\ probe.fn = "validateGameFile"

DraftCalled == probe.done /\ probe.fn = "validateDraftFile"

NoMarker(lines) == \A i \in 1..Len(lines) : ~IsMarkerLine(lines[i])

-----------------------------------------------------------------------------
(* Claims about validateGameFile and validateDraftFile (SpecText).         *)

\* C1: validateGameFile rejects every text in which some line, trimmed,
\* equals [JEOPARDY DRAFT], wherever that line is and whatever else the text
\* holds.
C1_MarkerLineRejected ==
    (GameCalled /\ \E i \in 1..Len(probe.arg) : IsMarkerLine(probe.arg[i]))
        => ~probe.ret.isValid

\* A marker line after the first line of an otherwise complete game.
C1_Witness ==
    /\ GameCalled
    /\ ~probe.ret.isValid
    /\ IsTitleLine(probe.arg[1])
    /\ \E i \in 2..Len(probe.arg) : IsMarkerLine(probe.arg[i])
    /\ LET cats == CategoryLines(probe.arg)
       IN  /\ Cardinality(cats) = BoardSize
           /\ \A i \in cats : CompleteRows(probe.arg, cats, i) >= BoardSize

\* C2: with no marker line, a title first line and at least 5 category
\* lines, validateGameFile rejects with the incomplete-category reason
\* whenever some category, in any position, has fewer than 5 rows with
\* non-empty question and answer.
C2_IncompleteCategoryRejected ==
    ( /\ GameCalled
      /\ NoMarker(probe.arg)
      /\ IsTitleLine(probe.arg[1])
      /\ LET cats == CategoryLines(probe.arg)
         IN  /\ Cardinality(cats) >= BoardSize
             /\ \E i \in cats : CompleteRows(probe.arg, cats, i) < BoardSize )
        => (~probe.ret.isValid /\ probe.ret.message = MsgIncompleteCategory)

\* The only incomplete category is not the last one.
C2_Witness ==
    /\ GameCalled
    /\ ~probe.ret.isValid
    /\ probe.ret.message = MsgIncompleteCategory
    /\ NoMarker(probe.arg)
    /\ IsTitleLine(probe.arg[1])
    /\ LET cats == CategoryLines(probe.arg)
       IN  /\ Cardinality(cats) >= BoardSize
           /\ \E i \in cats :
                /\ CompleteRows(probe.arg, cats, i) < BoardSize
                /\ \E j \in cats : j > i
                /\ \A j \in cats \ {i} :
                      CompleteRows(probe.arg, cats, j) >= BoardSize

C4_OnlyFirstFiveChecked ==
    ( /\ GameCalled
      /\ NoMarker(probe.arg)
      /\ IsTitleLine(probe.arg[1])
      /\ LET cats == CategoryLines(probe.arg)
         IN  /\ Cardinality(cats) >= BoardSize
             /\ \A i \in FirstCategories(cats, BoardSize) :
                   FieldCompleteRows(probe.arg, cats, i) >= BoardSize )
        => probe.ret.isValid

\* C4 amended: the incomplete-category check concerns every category of the
\* text.  With no marker line, a title first line and at least 5 category
\* lines, the text is accepted exactly when every category, a 6th or later
\* one included, has at least 5 rows whose question and third field are
\* non-empty; otherwise the reason is the incomplete-category one.
C4_EveryCategoryChecked ==
    ( /\ GameCalled
      /\ NoMarker(probe.arg)
      /\ IsTitleLine(probe.arg[1])
      /\ Cardinality(CategoryLines(probe.arg)) >= BoardSize )
        => LET cats == CategoryLines(probe.arg)
           IN  IF \A i \in cats : FieldCompleteRows(probe.arg, cats, i) >= BoardSize
               THEN probe.ret = [isValid |-> TRUE, type |-> "complete"]
               ELSE probe.ret = [isValid |-> FALSE, message |-> MsgIncompleteCategory]

\* Five complete categories followed by an incomplete sixth: rejected.
C4_Witness ==
    /\ GameCalled
    /\ probe.ret = [isValid |-> FALSE, message |-> MsgIncompleteCategory]
    /\ NoMarker(probe.arg)
    /\ IsTitleLine(probe.arg[1])
    /\ LET cats == CategoryLines(probe.arg)
       IN  /\ Cardinality(cats) > BoardSize
           /\ \A i \in FirstCategories(cats, BoardSize) :
                 FieldCompleteRows(probe.arg, cats, i) >= BoardSize
           /\ \E i \in cats : FieldCompleteRows(probe.arg, cats, i) < BoardSize

\* C5: validateDraftFile is total and never rejects: for every input, the
\* empty string included, the verdict has isValid = true.
C5_DraftValidatorNeverRejects ==
    DraftCalled => (probe.ret.isValid /\ probe.ret.type \in {"draft", "complete"})

\* The empty string (one empty line) has been classified.
C5_Witness ==
    /\ DraftCalled
    /\ probe.arg = <<EmptyStr>>
    /\ probe.ret.isValid

\* A text with no marker, a title first line and exactly 5 categories of
\* exactly 5 rows each, every row with non-empty question and third field.
IsCompleteGameText(lines) ==
    /\ NoMarker(lines)
    /\ IsTitleLine(lines[1])
    /\ LET cats == CategoryLines(lines)
       IN  /\ Cardinality(cats) = BoardSize
           /\ \A i \in cats :
                /\ FieldCompleteRows(lines, cats, i) = BoardSize
                /\ \A j \in CategoryBody(lines, cats, i) :
                      IsClueRow(lines[j]) => IsFieldCompleteRow(lines[j])

\* C6 as stated: for a complete game text validateGameFile returns ok and
\* validateDraftFile returns the verdict 'complete'.
C6_CompleteVerdict ==
    (probe.done /\ probe.fn \in ValidatorNames /\ IsCompleteGameText(probe.arg))
        => /\ probe.ret.isValid
           /\ probe.fn = "validateDraftFile" => probe.ret.type = "complete"

\* C6 amended: for a complete game text validateGameFile returns ok (type
\* 'complete') and validateDraftFile returns a valid verdict of type
\* 'draft': the Edit upload treats a complete game as a draft.
C6_CompleteGameIsDraftOnEdit ==
    (probe.done /\ probe.fn \in ValidatorNames /\ IsCompleteGameText(probe.arg))
        => /\ probe.fn = "validateGameFile"
                => probe.ret = [isValid |-> TRUE, type |-> "complete"]
           /\ probe.fn = "validateDraftFile"
                => probe.ret = [isValid |-> TRUE, type |-> "draft"]

\* validateDraftFile has classified a complete game text.
C6_Witness ==
    /\ DraftCalled
    /\ probe.ret.type = "draft"
    /\ IsCompleteGameText(probe.arg)

-----------------------------------------------------------------------------
(* Claims about the parsers (SpecText).                                    *)

\* A parser has read one of the texts with a single row.
ParserCalled == probe.done /\ probe.fn \in ParserNames /\ probe.arg \in ParserTexts

\* The clues of the only category a parser found in a one-category text.
ParsedClues ==
    IF probe.fn = "populateBoard"
    THEN IF Len(probe.ret.questions) = 1 THEN probe.ret.questions[1] ELSE <<>>
    ELSE IF Len(probe.ret.categories) = 1 THEN probe.ret.categories[1].clues ELSE <<>>

\* C10: for a clue row with at least 3 fields each of the three parsers takes
\* field 1 as value, field 2 as question and everything after the second bar,
\* further bars included, as answer (each trimmed at its ends).
C10_AnswerKeepsBars ==
    (ParserCalled /\ IsClueRow(probe.arg[3]))
        => ParsedClues = << [value |-> RowValue(Trim(probe.arg[3])),
                             question |-> RowQuestion(Trim(probe.arg[3])),
                             answer |-> RowAnswer(Trim(probe.arg[3]))] >>

\* The row 200|Capital of France|Paris|France parsed by the board parser.
C10_Witness ==
    /\ ParserCalled
    /\ probe.fn = "populateBoard"
    /\ probe.arg[3] = RowExample
    /\ ParsedClues[1].question =
          <<"C","a","p","i","t","a","l"," ","o","f"," ","F","r","a","n","c","e">>
    /\ ParsedClues[1].answer = <<"P","a","r","i","s","|","F","r","a","n","c","e">>

\* Question and answer of every clue, category by category.
CluesOf(questions) ==
    [c \in 1..Len(questions) |->
        [k \in 1..Len(questions[c]) |->
            [question |-> questions[c][k].question, answer |-> questions[c][k].answer]]]

GameRead == probe.fn \in GameBuilders /\ probe.read

DraftRead == probe.fn = "createDraftFromForm" /\ probe.read

(* C8: the board parser reads back, from the text a game builder emits for *)
(* an accepted form, the form's five category names in order and every     *)
(* cell's question and answer (the form's fields taken trimmed, as the     *)
(* builders take them).                                                    *)
C8_GameRoundTrip ==
    GameRead =>
        LET form == probe.arg.form
        IN  /\ probe.back.categories =
                   [c \in 1..Len(form.categories) |-> Trim(form.categories[c].name)]
            /\ CluesOf(probe.back.questions) =
                   [c \in 1..Len(form.categories) |->
                       [k \in 1..Len(form.categories[c].clues) |->
                           [question |-> Trim(form.categories[c].clues[k].question),
                            answer |-> Trim(form.categories[c].clues[k].answer)]]]

(* C9: the draft import parser reads back, from the text createDraftFromForm *)
(* emits for form data d, a category list equal to d.categories: as many   *)
(* categories, the same names in order, and per category the same clues    *)
(* (question and answer) in order.                                         *)
C9_DraftRoundTrip ==
    DraftRead =>
        LET d == gatherFormData(probe.arg.form, probe.arg.formTeams)
        IN  /\ [c \in 1..Len(probe.back.categories) |-> probe.back.categories[c].name] =
                   [c \in 1..Len(d.categories) |-> d.categories[c].name]
            /\ CluesOf([c \in 1..Len(probe.back.categories) |->
                           probe.back.categories[c].clues]) =
                   CluesOf([c \in 1..Len(d.categories) |-> d.categories[c].clues])

(* C7: whenever the jeopardyBoard slot holds a text, the board parser      *)
(* reads from it exactly five categories, each with exactly five rows,     *)
(* every row with a non-empty question and a non-empty answer.             *)
C7_StoredBoardIsStrict ==
    localStorage["jeopardyBoard"] # <<>> =>
        LET board == ParseBoardText(localStorage["jeopardyBoard"][1])
        IN  /\ Len(board.categories) = BoardSize
            /\ Len(board.questions) = BoardSize
            /\ \A c \in 1..Len(board.questions) :
                   /\ Len(board.questions[c]) = BoardSize
                   /\ \A r \in 1..Len(board.questions[c]) :
                          /\ board.questions[c][r].question # EmptyStr
                          /\ board.questions[c][r].answer # EmptyStr

-----------------------------------------------------------------------------
(* Claims about the line structure of a text (SpecText).                   *)

TitleLines(lines) == {i \in 1..Len(lines) : IsTitleLine(lines[i])}

\* The remainder of the first line that starts with `title:`, trimmed.
FirstTitle(lines) ==
    LET first == CHOOSE i \in TitleLines(lines) : \A j \in TitleLines(lines) : i <= j
    IN  Trim(Substring(Trim(lines[first]), 6))

TitleReaders == {"draftImport", "gameImport", "parseTitleFromText"}

StructureRead == probe.done /\ probe.arg \in StructureTexts

\* C11: of several lines that start with `title:` the first gives the title,
\* for the draft import parser, the game-file import parser and
\* parseTitleFromText; a later one never overwrites it.
C11_FirstTitleWins ==
    (StructureRead /\ probe.fn \in TitleReaders
       /\ Cardinality(TitleLines(probe.arg)) >= 2)
        => probe.ret.title = FirstTitle(probe.arg)

\* The k-th category line of a text.
NthCategoryLine(lines, k) ==
    CHOOSE i \in CategoryLines(lines) :
        Cardinality({j \in CategoryLines(lines) : j < i}) = k - 1

\* One parsed category per category line, in input order: its name, the
\* remainder of the line trimmed, and the number of its clue rows.
CategoryOutline(lines) ==
    [k \in 1..Cardinality(CategoryLines(lines)) |->
        LET i == NthCategoryLine(lines, k)
        IN  [name |-> Trim(Substring(Trim(lines[i]), 9)),
             rows |-> Cardinality({j \in CategoryBody(lines, CategoryLines(lines), i) :
                                      IsClueRow(lines[j])})]]

\* The same outline of a parser's result.
ParsedOutline ==
    IF probe.fn = "populateBoard"
    THEN [k \in 1..Len(probe.ret.categories) |->
             [name |-> probe.ret.categories[k], rows |-> Len(probe.ret.questions[k])]]
    ELSE [k \in 1..Len(probe.ret.categories) |->
             [name |-> probe.ret.categories[k].name,
              rows |-> Len(probe.ret.categories[k].clues)]]

\* C12: every `category:` line gives exactly one parsed category, in input
\* order and with the rows that follow it, a category whose name is empty
\* included.
C12_EveryCategoryLineParsed ==
    (StructureRead /\ probe.fn \in ParserNames)
        => ParsedOutline = CategoryOutline(probe.arg)

-----------------------------------------------------------------------------
(* Claims about the session (Spec).                                        *)

\* A game is on the page.
GameActive == Ready /\ page.visible.game

\* C13: in an active game the cell in row r of every column is worth
\* 100 * (r + 1), whatever value its file row carries, and that is the
\* number of points which a click on the cell sets up for the award.
C13_CanonicalValues ==
    GameActive =>
        /\ \A cell \in BoardCells :
               ParseInt(page.cells[cell].value) = 100 * (cell[1] + 1)
        /\ page.lastCell # <<>> =>
               page.lastCellValue = 100 * (page.lastCell[1][1] + 1)

\* A reload of the page pg over the storage store gives back the board, the
\* used cells and the teams of pg, and leaves the stored board text alone.
ReloadRestores(pg, store) ==
    \A restored \in {StartupResult(FreshPage, store)} :
        /\ TextTruthy(loadBoardText(store))
        /\ restored.store["jeopardyBoard"] = store["jeopardyBoard"]
        /\ restored.page.visible.game
        /\ restored.page.cells = pg.cells
        /\ restored.page.usedCells = pg.usedCells
        /\ restored.page.teams = pg.teams

\* The steps of a game: a cell is opened, points are awarded from the prompt
\* or in the stats table, the prompt is cancelled, a team is renamed.
GamePlayStep ==
    \/ ClickCell \/ PromptAddPoints \/ PromptSubtractPoints \/ PromptCancel
    \/ StatsAddPoints \/ StatsSubtractPoints \/ EditTeamName

\* C14: a game starts in a state that a reload restores (board text, used
\* cells, team names and scores), and every cell award, stats-table score
\* change and team-name edit leads to such a state again.
C14_ReloadRestoresSession ==
    [][ /\ (~GameActive /\ GameActive') => ReloadRestores(page', localStorage')
        /\ (GameActive /\ GamePlayStep /\ ReloadRestores(page, localStorage))
               => ReloadRestores(page', localStorage') ]_vars

\* A restored game: no cell was opened since the page loaded, and cell
\* <<0, 0>> is used, the team renamed and its score 100 from before.
C14_Witness ==
    /\ GameActive
    /\ page.lastCellValue = 0
    /\ page.usedCells = {<<0, 0>>}
    /\ Len(page.teams) = 1
    /\ page.teams[1] = [name |-> EditedName, score |-> 100]
    /\ ReloadRestores(page, localStorage)

\* The step in which the page starts.
StartupStep == page.phase = "loading" /\ page'.phase = "ready"

\* C16: at startup the resume-editing notification is shown exactly when the
\* formDraft slot is present and the boardText slot is absent; the startup
\* that shows it leaves the form empty and every slot as it was; with
\* boardText present the game is shown and no notification.
C16_DraftNotification ==
    [][ StartupStep =>
          /\ page'.visible.notification <=>
                 (localStorage["jeopardyFormDraft"] # <<>>
                    /\ localStorage["jeopardyBoard"] = <<>>)
          /\ page'.visible.notification =>
                 /\ page'.form = EmptyForm
                 /\ page'.formTeams = <<>>
                 /\ ~page'.visible.createForm
                 /\ localStorage' = localStorage
          /\ localStorage["jeopardyBoard"] # <<>> =>
                 (page'.visible.game /\ ~page'.visible.notification) ]_vars

\* The page has started over a saved draft and shows the notification.
C16_Witness ==
    /\ Ready
    /\ page.visible.notification
    /\ localStorage["jeopardyFormDraft"] # <<>>
    /\ localStorage["jeopardyBoard"] = <<>>
    /\ page.form = EmptyForm

\* C17: when the reset handler has run and the page has not yet reloaded,
\* boardText, usedCellIds, teams, title and formDraft are all absent.
C17_ResetClearsAllSlots ==
    page.phase = "unloading" => \A key \in SlotKeys : localStorage[key] = <<>>

\* Reset has run on a game with a used cell and a team.
C17_Witness ==
    /\ page.phase = "unloading"
    /\ page.usedCells # {}
    /\ page.teams # <<>>
    /\ localStorage = NoItems

\* The slots of keys that are present before the step are present after it.
SlotsKept(keys) ==
    \A key \in keys : localStorage[key] # <<>> => localStorage'[key] # <<>>

\* C18 as stated: in every step other than the reset action each of the five
\* slots that was present before the step is still present after it.
C18_OnlyResetRemoves == [][ ~Reset => SlotsKept(SlotKeys) ]_vars

\* C18: in every step other than the reset action boardText, usedCellIds,
\* teams and title stay present; formDraft is removed by reset, by the
\* creation of a board from the form, by declining the restore of a draft
\* and by discarding the draft, and by no other step.
C18_OnlyDraftRemovedElsewhere ==
    [][ /\ ~Reset => SlotsKept(SlotKeys \ {"jeopardyFormDraft"})
        /\ ~SlotsKept({"jeopardyFormDraft"})
               => (Reset \/ ConfirmCreateBoard \/ DeclineDraft \/ ConfirmDiscardDraft)
      ]_vars

\* A board made from the form is stored with its title and the teams, and
\* the draft that was saved while the form was typed is gone.
C18_Witness ==
    /\ GameActive
    /\ localStorage["jeopardyBoard"] = <<createBoardFromForm(FormComplete).text>>
    /\ localStorage["jeopardyFormDraft"] = <<>>
    /\ localStorage["jeopardyTitle"] # <<>>
    /\ localStorage["jeopardyTeams"] # <<>>

AwardStep ==
    PromptAddPoints \/ PromptSubtractPoints \/ StatsAddPoints \/ StatsSubtractPoints

\* The team list after, given the one before: one score moved by v up or
\* down, v being the value of the cell clicked last.
AwardedBy(before, after, v) ==
    /\ Len(after) = Len(before)
    /\ \E idx \in 1..Len(before) :
           /\ after[idx].score \in {before[idx].score + v, before[idx].score - v}
           /\ after[idx].name = before[idx].name
           /\ \A i \in 1..Len(before) : i # idx => after[i] = before[i]

SameScores(before, after) ==
    /\ Len(after) = Len(before)
    /\ \A i \in 1..Len(before) : after[i].score = before[i].score

\* C20: teams are created with score 0; afterwards a score changes only in
\* an award (prompt add/subtract, stats-table +/-), by +v or -v where v is
\* the value of the cell clicked last, 0 when none was clicked since the
\* page loaded; other steps of the page and a reload leave the scores alone.
C20_ScoresChangeByAwards ==
    [][ /\ (page.phase = "ready" /\ page'.phase = "ready" /\ page'.teams # page.teams)
              => \/ AwardStep /\ AwardedBy(page.teams, page'.teams, page.lastCellValue)
                 \/ ~AwardStep /\ SameScores(page.teams, page'.teams)
                 \/ ~AwardStep /\ \A i \in 1..Len(page'.teams) : page'.teams[i].score = 0
        /\ (EditTeamName \/ ClickCell \/ PromptCancel) => SameScores(page.teams, page'.teams)
        /\ (page.phase = "ready" /\ page'.phase = "loading")
              => StartupResult(page', localStorage').page.teams = page.teams
        /\ page'.lastCellValue # page.lastCellValue
              => \/ page'.phase = "loading"
                 \/ /\ ClickCell
                    /\ page'.lastCellValue = ParseInt(page.cells[page'.lastCell[1]].value)
      ]_vars

\* A team stands at minus the value of the cell that was opened and scored.
C20_Witness ==
    /\ GameActive
    /\ page.lastCell = <<>>
    /\ page.lastCellValue = 50
    /\ page.usedCells = {<<0, 0>>}
    /\ Len(page.teams) = 1
    /\ page.teams[1].score = 0 - 50

\* The storage with no slot that holds text JSON.parse rejects.
NoCorruptSlot(store) == \A key \in SlotKeys : ~LoadThrows(store, key)

\* The title the statement resolves from a storage: the stored title when
\* present and non-empty, else the one parsed from the stored board text.
ResolvedTitle(store) ==
    LET stored == StorageLoad(store, "jeopardyTitle", EmptyStr)
        saved == loadBoardText(store)
    IN  IF stored # EmptyStr THEN stored
        ELSE IF TextTruthy(saved) THEN BoardTitle[saved]
        ELSE EmptyStr

WithoutCorrupt(store) ==
    [key \in SlotKeys |-> IF LoadThrows(store, key) THEN <<>> ELSE store[key]]

\* C19: a startup from a storage with corrupt slots ends without an
\* uncaught error and leaves the page as the startup from the storage
\* without these slots leaves it.
C19_CorruptAsAbsent ==
    [][ StartupStep
            => /\ ~page'.uncaught
               /\ \A clean \in {StartupResult(page, WithoutCorrupt(localStorage))} :
                      page' = clean.page
      ]_vars

\* C21: once no read of the Play control is pending and the file selected
\* last is a valid game file, the stored board text, the stored title and
\* window.uploadedFileText are those of that file.
C21_LaterSelectionWins ==
    (probe.fn = "gameUpload" /\ page.gameReads = <<>> /\ probe.arg \in UploadFiles)
        => (FileValidation[probe.arg].isValid
               => /\ page.uploadedFileText = <<probe.arg>>
                  /\ localStorage["jeopardyBoard"] = <<probe.arg>>
                  /\ localStorage["jeopardyTitle"] = <<FileTitle[probe.arg]>>)

\* The page goes while it is ready: the step before a startup.
ReloadStep == page.phase = "ready" /\ page'.phase = "loading"

\* The stored used-cell ids are those of the game on the page, and the
\* stored board text is absent or that of another game.
StaleUsedCells ==
    /\ GameActive
    /\ page.usedCells # {}
    /\ localStorage["jeopardyUsedCells"] = <<page.usedCells>>
    /\ \/ localStorage["jeopardyBoard"] = <<>>
       \/ CellTable[localStorage["jeopardyBoard"][1]] # page.cells

\* C22: when the page is reloaded with used-cell ids in storage that were
\* recorded for a game other than the stored board text, the startup that
\* follows marks no cell used.
C22_StaleUsedCellsIgnored ==
    [][ (ReloadStep /\ StaleUsedCells)
            => \A restored \in {StartupResult(page', localStorage')} :
                   restored.page.usedCells = {}
      ]_vars

\* The files of the Play control that validateGameFile rejects.
RejectedFiles == {file \in PlayFiles : ~validateGameFile(file).isValid}

WithoutRead(reads, i) == SubSeq(reads, 1, i - 1) \o SubSeq(reads, i + 1, Len(reads))

\* The read of a rejected file completes.
RejectedReadDone ==
    /\ GameReadDone
    /\ \E i \in 1..Len(page.gameReads) :
           /\ page.gameReads[i] \in RejectedFiles
           /\ page'.gameReads = WithoutRead(page.gameReads, i)

\* C23: the step in which the read of a rejected file completes leaves the
\* five slots and window.uploadedFileText as they were, shows and hides
\* nothing (the team setup is not entered), and changes nothing else on the
\* page but the list of pending reads.
C23_RejectedUploadChangesNothing ==
    [][ RejectedReadDone
            => /\ localStorage' = localStorage
               /\ page'.uploadedFileText = page.uploadedFileText
               /\ page'.visible = page.visible
               /\ page' = [page EXCEPT !.gameReads = page'.gameReads]
      ]_vars

\* The file selected last was rejected and its read is over: the board, the
\* title and uploadedFileText are still those of the valid file before it,
\* and the stored draft is still there.
C23_Witness ==
    /\ probe.arg = FileMarked
    /\ page.gameReads = <<>>
    /\ page.uploadedFileText = <<FileComplete>>
    /\ localStorage["jeopardyBoard"] = <<FileComplete>>
    /\ localStorage["jeopardyTitle"] = <<BaseTitle>>
    /\ localStorage["jeopardyFormDraft"] # <<>>

\* The file selected last was rejected, its read is over, and the team
\* setup was not entered.
C23_NoSetupWitness ==
    /\ probe.arg = FileMarked
    /\ page.gameReads = <<>>
    /\ page.uploadedFileText = <<>>
    /\ ~page.visible.teamSetup
    /\ localStorage["jeopardyBoard"] = <<>>

Filled(field) == Trim(field) # EmptyStr

\* The title, the first five category names and their 25 questions and
\* answers are non-empty after trimming.
FormFilled(form) ==
    /\ Filled(form.title)
    /\ Len(form.categories) >= BoardSize
    /\ \A c \in 1..BoardSize :
           /\ Filled(form.categories[c].name)
           /\ \A r \in 1..BoardSize :
                  /\ Filled(form.categories[c].clues[r].question)
                  /\ Filled(form.categories[c].clues[r].answer)

\* C24: createBoardFromForm gives a board exactly for a form whose title,
\* five category names and 25 questions and answers are non-empty after
\* trimming; it then stores the board text and the trimmed title and shows
\* the game; otherwise it returns null, the five slots are as before and no
\* game is shown.
C24_CreateOnlyFromFilledForm ==
    [][ ConfirmCreateBoard
            => /\ createBoardFromForm(page.form).ok = FormFilled(page.form)
               /\ FormFilled(page.form)
                      => /\ localStorage'["jeopardyTitle"] = <<Trim(page.form.title)>>
                         /\ localStorage'["jeopardyBoard"] # <<>>
                         /\ parseTitleFromText(localStorage'["jeopardyBoard"][1])
                                = Trim(page.form.title)
                         /\ page'.visible.game
               /\ ~FormFilled(page.form)
                      => /\ localStorage' = localStorage
                         /\ page' = [page EXCEPT !.dialog = "none"]
      ]_vars

\* A board was made from a form whose title has blanks around it: the
\* trimmed title is stored and the game is shown.
C24_Witness ==
    /\ page.form.title = <<" ", "x", " ">>
    /\ page.visible.game
    /\ page.dialog = "none"
    /\ localStorage["jeopardyTitle"] = << <<"x">> >>
    /\ localStorage["jeopardyBoard"] # <<>>

\* The teams the statement reads from a list of name tokens: one team per
\* token, its name the token trimmed, its score 0.
TeamsOfTokens(tokens) ==
    [i \in 1..Len(tokens) |-> [name |-> Trim(tokens[i]), score |-> 0]]

\* The category tree of a draft with one category line and a number of
\* rows: that category with exactly these rows.
TreeOfRows(rows) ==
    << [name |-> <<"C", "1">>,
        clues |-> [r \in 1..rows |->
                      [value |-> ValueText(r), question |-> <<"q">>, answer |-> <<"a">>]]] >>

ImportedDraft(tokens, rows) ==
    probe.done /\ probe.fn = "importDraft" /\ probe.arg = DraftWithTeams(tokens, rows)

\* C25 as stated: the import of a marked draft gives one team per token of
\* the teams line, trimmed, with score 0, in order, and the category tree
\* as written, without padding.
C25_TeamsFromLine ==
    \A tokens \in TokenLists, rows \in 0..MaxDraftRows :
        ImportedDraft(tokens, rows)
            => /\ probe.ret.teams = TeamsOfTokens(tokens)
               /\ probe.ret.title = <<"X">>
               /\ probe.ret.categories = TreeOfRows(rows)

\* The remainder of the teams line is empty after trimming.
NoNames(tokens) == Trim(Join(tokens, <<",">>)) = EmptyStr

\* C25: the same when the remainder of the teams line is non-empty after
\* trimming; when it is empty the team list is the one default team.
C25_TeamsFromNonEmptyLine ==
    \A tokens \in TokenLists, rows \in 0..MaxDraftRows :
        ImportedDraft(tokens, rows)
            => /\ probe.ret.teams = IF NoNames(tokens) THEN <<TeamOne>>
                                    ELSE TeamsOfTokens(tokens)
               /\ probe.ret.title = <<"X">>
               /\ probe.ret.categories = TreeOfRows(rows)

\* The text of the statement was imported: title X, teams A and B, one
\* category C1 with one clue.
C25_Witness ==
    /\ ImportedDraft(<< <<"A">>, <<" ", "B">> >>, 1)
    /\ probe.ret.teams = << [name |-> <<"A">>, score |-> 0], [name |-> <<"B">>, score |-> 0] >>
    /\ Len(probe.ret.categories) = 1
    /\ Len(probe.ret.categories[1].clues) = 1

\* C26: Continue to Game with no file team changes nothing; with file
\* teams it shows the game of the uploaded file, makes the file teams the
\* teams and stores them, marks no cell used and stores the empty set of
\* used cells.
C26_ContinueNeedsTeam ==
    [][ ContinueToGame
            => IF page.fileTeams = <<>>
               THEN page' = page /\ localStorage' = localStorage
               ELSE /\ GameActive'
                    /\ page'.cells = CellTable[page.uploadedFileText[1]]
                    /\ page'.teams = page.fileTeams
                    /\ localStorage'["jeopardyTeams"] = <<page.fileTeams>>
                    /\ page'.usedCells = {}
                    /\ localStorage'["jeopardyUsedCells"] = <<{}>>
      ]_vars

\* The game of an uploaded file has just been started with its file teams.
C26_Witness ==
    /\ GameActive
    /\ page.uploadedFileText = <<FileComplete>>
    /\ page.cells = CellTable[FileComplete]
    /\ ~page.visible.teamSetup
    /\ page.fileTeams = <<NewTeam(1)>>
    /\ page.teams = page.fileTeams
    /\ localStorage["jeopardyTeams"] = <<page.fileTeams>>
    /\ page.usedCells = {}
    /\ localStorage["jeopardyUsedCells"] = <<{}>>

\* C27: the stored form draft, when present, has the fields title,
\* categories, teams and lastModified.
C27_DraftIsFullSnapshot ==
    localStorage["jeopardyFormDraft"] # <<>>
        => {"title", "categories", "teams", "lastModified"}
               \subseteq DOMAIN localStorage["jeopardyFormDraft"][1]

\* C28: whenever the game board is shown for play there is at least one
\* team.
C28_GameHasTeam == GameActive => Len(page.teams) >= 1

\* C29: a game text that createBoardFromForm or createBoardTextFromForm
\* emits is accepted by validateGameFile, and a draft text that
\* createDraftFromForm emits is rejected by it with the draft-marker reason.
C29_FormTextsValidate ==
    /\ (probe.done /\ probe.fn \in GameBuilders /\ probe.ret.ok)
           => validateGameFile(probe.ret.text).isValid
    /\ (probe.done /\ probe.fn = "createDraftFromForm")
           => validateGameFile(probe.ret.text)
                  = [isValid |-> FALSE, message |-> MsgDraftFile]

PromptAward == (PromptAddPoints \/ PromptSubtractPoints) /\ page.teams # <<>>

\* C30: on a loaded page a cell becomes used only in an add or subtract of
\* the prompt, and it is the cell the prompt was opened for; prompt cancel
\* and the stats-table buttons mark nothing; a used cell stays used until
\* a new game starts or the board is reset, and a reload restores the same
\* used cells; after every prompt award the stored used-cell ids are the
\* cells marked used.
C30_UsedOnlyByPromptAward ==
    [][ /\ (Ready /\ Ready' /\ ~(page'.usedCells \subseteq page.usedCells))
               => /\ PromptAward
                  /\ page'.usedCells = page.usedCells \cup {page.lastCell[1]}
        /\ (PromptCancel \/ StatsAddPoints \/ StatsSubtractPoints)
               => page'.usedCells = page.usedCells
        /\ (Ready /\ Ready' /\ ~(page.usedCells \subseteq page'.usedCells))
               => (ContinueToGame \/ ConfirmCreateBoard)
        /\ (ReloadStep /\ GameActive)
               => \A restored \in {StartupResult(page', localStorage')} :
                      restored.page.usedCells = page.usedCells
        /\ PromptAward
               => localStorage'["jeopardyUsedCells"] = <<page'.usedCells>>
      ]_vars

\* The prompt is open again on a cell that an earlier award marked used.
C30_Witness ==
    /\ GameActive
    /\ page.usedCells = {<<0, 0>>}
    /\ localStorage["jeopardyUsedCells"] = <<{<<0, 0>>}>>
    /\ page.lastCell = << <<0, 0>> >>
    /\ Len(page.teams) = 1
    /\ page.teams[1].score = 100

====
